---- MODULE Spec2Model ----
(***************************************************************************)
(* Sales analytics of the order dashboard (src/app/dashboard/page.tsx):    *)
(* the component state, the handlers that change it, and the adjustedStats *)
(* aggregation that is recomputed from it.                                 *)
(*                                                                         *)
(* Numbers.  Time is counted in hours since 2023-01-01T00:00Z, a Sunday.   *)
(* Money is counted in units of 1/Scale TND, with Scale = 100 * ShareDen,  *)
(* so that the 3 % deduction and every proportional share of the orders    *)
(* the model draws are exact integers: the arithmetic of the model is      *)
(* exact, the rounding of IEEE doubles is not modelled.                    *)
(***************************************************************************)
EXTENDS Integers, Sequences, FiniteSets, TLC

VARIABLES
    orders,               \* useState<Order[]>([])
    stats,                \* useState<DashboardStats | null>(null)
    loading,              \* useState(true)
    returns,              \* useState<ReturnData[]>([])
    addingReturn,         \* useState(false)
    dateFilter,           \* useState("all")
    dateRange,            \* useState<DateRange | undefined>()
    cansStatusFilter,     \* useState("all")
    plantTypeFilter,      \* useState("all")
    averagesStatusFilter, \* useState("all")
    memoNow,              \* the clock value read by the last run of the useMemo callback
    now,                  \* the ambient clock (new Date())
    returnsDb,            \* the Return collection behind /api/returns
    postInFlight,         \* addReturn is awaiting its POST
    getsInFlight,         \* the fetchReturns calls whose GET is not answered yet
    getResponses          \* the GET responses on their way back to fetchReturns

vars == <<orders, stats, loading, returns, addingReturn, dateFilter, dateRange,
          cansStatusFilter, plantTypeFilter, averagesStatusFilter,
          memoNow, now, returnsDb, postInFlight, getsInFlight, getResponses>>

----------------------------------------------------------------------------
(* Program constants *)

DELIVERY_FEE == 8

PRODUCT_COST == 6

FREE_PRODUCT_COST == 6

FreeProductThreshold == 3

CommissionPercent == 3
\* revenue * 0.01 of the order details page
DetailCommissionPercent == 1

RETURN_COST == 3

ReturnSchemaDefaultCost == 3

HoursPerDay == 24

\* The offset of the browser's local time from UTC, in hours (Africa/Tunis).
TzOffset == 1

(* Bounds of the model *)

MaxOrders == 2

MaxTicks == 2

\* The largest number of returns the store holds
MaxReturns == 3

----------------------------------------------------------------------------
(* Generic helpers *)

Max(a, b) == IF a >= b THEN a ELSE b

Range(s) == {s[i] : i \in 1..Len(s)}

\* Array.prototype.reduce with an initial value
RECURSIVE reduce(_, _, _)
reduce(op(_, _), acc, s) ==
    IF s = <<>> THEN acc ELSE reduce(op, op(acc, Head(s)), Tail(s))

\* Array.prototype.filter
filter(s, test(_)) == SelectSeq(s, test)

\* All sequences over S of length at most n
SeqsUpTo(S, n) == UNION {[1..k -> S] : k \in 0..n}

RECURSIVE GCD(_, _)
GCD(a, b) == IF b = 0 THEN a ELSE GCD(b, a % b)

LCM(a, b) == (a * b) \div GCD(a, b)

RECURSIVE LCMOfSet(_)
LCMOfSet(S) ==
    IF S = {} THEN 1
    ELSE LET x == CHOOSE y \in S : TRUE IN LCM(x, LCMOfSet(S \ {x}))

\* JavaScript's undefined / null / "" for a value that is otherwise a number
NoDate == 0 - 1

Null == [isNull |-> TRUE]

----------------------------------------------------------------------------
(* Dates: the Date methods and the date-fns functions the aggregation uses *)

\* The instant of local wall-clock hour h on the d-th local day after the epoch
At(d, h) == (d * HoursPerDay + h) - TzOffset

\* Whole local days since the epoch
LocalDay(t) == (t + TzOffset) \div HoursPerDay

\* date.setHours(0, 0, 0, 0); date.getTime()
setHoursZero(t) == t - ((t + TzOffset) % HoursPerDay)

\* date-fns startOfDay, endOfDay (the last instant of the local day) and subDays
startOfDay(t) == t - ((t + TzOffset) % HoursPerDay)

\* endOfDay stopping at the first instant of the day
endOfDayAtMidnight(t) == startOfDay(t)

endOfDay(t) == startOfDay(t) + (HoursPerDay - 1)

subDays(t, n) == t - n * HoursPerDay

IsLeap(y) == (y % 4 = 0 /\ y % 100 # 0) \/ y % 400 = 0

DaysInYear(y) == IF IsLeap(y) THEN 366 ELSE 365

\* m is 0-based, as Date.getMonth()
DaysInMonth(y, m) ==
    IF m = 1 THEN (IF IsLeap(y) THEN 29 ELSE 28)
    ELSE IF m \in {3, 5, 8, 10} THEN 30 ELSE 31

RECURSIVE YearOfDay(_, _)
YearOfDay(y, d) ==
    IF d < DaysInYear(y) THEN [year |-> y, dayOfYear |-> d]
    ELSE YearOfDay(y + 1, d - DaysInYear(y))

RECURSIVE MonthOfDay(_, _, _)
MonthOfDay(y, m, d) ==
    IF d < DaysInMonth(y, m) THEN [month |-> m, date |-> d + 1]
    ELSE MonthOfDay(y, m + 1, d - DaysInMonth(y, m))

\* The civil date of the n-th day after 2023-01-01
Civil(n) ==
    LET yd == YearOfDay(2023, n)
        md == MonthOfDay(yd.year, 0, yd.dayOfYear)
    IN  [year |-> yd.year, month |-> md.month, date |-> md.date,
         dayOfYear |-> yd.dayOfYear]

getFullYear(t) == Civil(LocalDay(t)).year

getMonth(t) == Civil(LocalDay(t)).month

getHours(t) == (t + TzOffset) % HoursPerDay

\* 0 = Sunday; 2023-01-01 was a Sunday
getDay(t) == LocalDay(t) % 7

\* date.toISOString().split('T')[0]: the civil date in UTC
toISODate(t) ==
    LET c == Civil(t \div HoursPerDay)
    IN  <<c.year, c.month + 1, c.date>>

\* new Date(order.orderDate || order.createdAt)
OrderTime(order) ==
    IF order.orderDate # NoDate THEN order.orderDate ELSE order.createdAt

----------------------------------------------------------------------------
(* The records the aggregation reads *)

Line(name, price, quantity) ==
    [name |-> name, price |-> price, quantity |-> quantity]

MkOrder(status, totalPrice, totalItems, products, city, email, phone, orderDate, createdAt) ==
    [status       |-> status,
     orderSummary |-> [totalPrice |-> totalPrice, totalItems |-> totalItems],
     products     |-> products,
     customer     |-> [city |-> city, email |-> email, phone |-> phone],
     orderDate    |-> orderDate,
     createdAt    |-> createdAt]

\* Return.create({}) at instant t: the schema defaults (src/models/Return.ts)
MkReturn(t) == [createdAt |-> t, cost |-> ReturnSchemaDefaultCost]

\* The day the model's clock starts in: Sunday 2023-12-31, at 23:00 local time
Day0 == DaysInYear(2023) - 1

Now0 == At(Day0, 23)

\* What /api/orders/stats/dashboard answers; the aggregation only spreads it
BackendStats == [totalOrders |-> 7, todayOrders |-> 1, pendingOrders |-> 2]

NoRange == [from |-> NoDate, to |-> NoDate]

(* Orders that differ in what the cost model reads *)

CostShapes ==
    [promo |->  \* 3 items, 50 TND: the promotion applies; one product on two lines
        [totalPrice |-> 50, totalItems |-> 3,
         products |-> <<Line("Basil", 14, 1), Line("Basil", 14, 2)>>,
         city |-> "Tunis", email |-> "a@x.tn", t |-> At(Day0, 10)],
     split |->  \* lines worth 30 and 10, order revenue 36
        [totalPrice |-> 44, totalItems |-> 2,
         products |-> <<Line("Basil", 30, 1), Line("Mint", 10, 1)>>,
         city |-> "Sfax", email |-> "b@x.tn", t |-> At(Day0, 15)],
     small |->  \* a total below the delivery fee
        [totalPrice |-> 5, totalItems |-> 1,
         products |-> <<Line("Mint", 5, 1)>>,
         city |-> "Tunis", email |-> "", t |-> At(Day0 - 1, 12)],
     free |->   \* four units at price 0: the line-item total is 0
        [totalPrice |-> 8, totalItems |-> 4,
         products |-> <<Line("Basil", 0, 2), Line("Mint", 0, 2)>>,
         city |-> "Sfax", email |-> "a@x.tn", t |-> At(Day0 - 2, 8)]]

CostOrder(st, sh) ==
    MkOrder(st, sh.totalPrice, sh.totalItems, sh.products, sh.city, sh.email,
            "20123456", sh.t, sh.t)

CostOrders ==
    { CostOrder(st, CostShapes[n]) :
        st \in {"pending", "cancelled"}, n \in DOMAIN CostShapes }
      \cup { CostOrder("delivered", CostShapes.promo) }

CostReturnDbs == { <<MkReturn(At(Day0, 9)), MkReturn(At(Day0 - 1, 9))>> }

(* Orders that differ in who placed them and in how far they got: a       *)
(* customer known by email, the same one under another phone, one known by *)
(* phone alone, two without email or phone, and a cancelled order          *)

MetricOrder(st, email, phone, sh) ==
    [CostOrder(st, sh) EXCEPT !.customer.email = email,
                              !.customer.phone = phone]

MetricOrders ==
    {MetricOrder("delivered", "a@x.tn", "20123456", CostShapes.promo),
     MetricOrder("pending", "a@x.tn", "20999999", CostShapes.split),
     MetricOrder("pending", "", "20123456", CostShapes.small),
     MetricOrder("pending", "", "", CostShapes.free),
     MetricOrder("delivered", "", "", CostShapes.small),
     MetricOrder("cancelled", "b@x.tn", "20123456", CostShapes.promo)}

(* The orders and the stored returns of the runs that add returns: live   *)
(* orders of today, yesterday and the day before, and a cancelled one      *)

\* A list the orders endpoint may answer with: the most recently created
\* order first, no order twice
NewestFirst(list) ==
    \A i \in 1..(Len(list) - 1) :
        \/ list[i].createdAt > list[i + 1].createdAt
        \/ /\ list[i].createdAt = list[i + 1].createdAt
           /\ list[i].orderDate > list[i + 1].orderDate
        \/ /\ list[i].createdAt = list[i + 1].createdAt
           /\ list[i].orderDate = list[i + 1].orderDate
           /\ list[i].status = "pending"
           /\ list[i + 1].status = "cancelled"

ReturnOrders ==
    {CostOrder("pending", CostShapes[n]) : n \in {"promo", "small", "free"}}
      \cup {CostOrder("cancelled", CostShapes.promo)}

ReturnOrderLists ==
    {list \in SeqsUpTo(ReturnOrders, MaxOrders) \ {<<>>} : NewestFirst(list)}

ReturnDbs == { <<MkReturn(At(Day0 - 1, 9)), MkReturn(At(Day0 - 2, 9))>> }

(* Orders and returns that differ in when they were placed: the first and *)
(* the last hour of the days around the day the clock starts in           *)

DateStamps ==
    {At(Day0 - 2, 23), At(Day0 - 1, 0), At(Day0 - 1, 23),
     At(Day0, 0), At(Day0, 23), At(Day0 + 1, 0)}

DateOrder(orderDate, createdAt) ==
    [CostOrder("pending", CostShapes.promo)
        EXCEPT !.orderDate = orderDate, !.createdAt = createdAt]

DateOrders ==
    {DateOrder(ts, ts) : ts \in DateStamps}
      \cup {DateOrder(NoDate, At(Day0 - 1, 23)),   \* no orderDate: createdAt counts
            DateOrder(At(Day0, 0), At(Day0 - 1, 23))} \* orderDate before createdAt

DateOrderLists ==
    {list \in SeqsUpTo(DateOrders, MaxOrders) \ {<<>>} : NewestFirst(list)}

\* One stored return per stamp
DateReturnDbs == { <<MkReturn(At(Day0 + 1, 0)), MkReturn(At(Day0, 23)),
                     MkReturn(At(Day0, 0)), MkReturn(At(Day0 - 1, 23)),
                     MkReturn(At(Day0 - 1, 0)), MkReturn(At(Day0 - 2, 23))>> }

(* Orders that differ in the day, the week, the month and the year they   *)
(* fall in, and in their status: Day0 is Sunday 2023-12-31                *)

AverageOrder(st, sh, t) ==
    [CostOrder(st, sh) EXCEPT !.orderDate = t, !.createdAt = t]

AverageOrders ==
    {AverageOrder("pending", CostShapes.promo, At(Day0 + 1, 12)),   \* next year
     AverageOrder("delivered", CostShapes.split, At(Day0, 15)),
     AverageOrder("delivered", CostShapes.promo, At(Day0, 12)),
     AverageOrder("cancelled", CostShapes.promo, At(Day0, 11)),
     AverageOrder("shipped", CostShapes.small, At(Day0, 10)),
     AverageOrder("delivered", CostShapes.small, At(Day0, 0)),  \* the day before, in UTC
     AverageOrder("delivered", CostShapes.promo, At(Day0 - 1, 12)), \* the week before
     AverageOrder("delivered", CostShapes.split, At(Day0 - 7, 12)),
     AverageOrder("delivered", CostShapes.promo, At(Day0 - 31, 12))} \* the month before

AverageOrderLists ==
    {list \in SeqsUpTo(AverageOrders, MaxOrders) : NewestFirst(list)}

(* Orders placed in the first and the last hour of days around the turn   *)
(* of a week and of a year: 2023 starts on a Sunday, 2024 on a Monday, and *)
(* the leap year 2028 on a Saturday                                        *)

Jan1Of2024 == DaysInYear(2023)

Jan1Of2028 ==
    DaysInYear(2023) + DaysInYear(2024) + DaysInYear(2025) + DaysInYear(2026)
      + DaysInYear(2027)

WeekDays ==
    {0, 6, 7, Day0 - 1, Day0,
     Jan1Of2024, Jan1Of2024 + 5, Jan1Of2024 + 6, Jan1Of2024 + 365,
     Jan1Of2028, Jan1Of2028 + 1, Jan1Of2028 + 364, Jan1Of2028 + 365}

WeekOrders ==
    {AverageOrder("pending", CostShapes.promo, At(d, h)) :
        d \in WeekDays, h \in {0, 23}}

WeekOrderLists ==
    {list \in SeqsUpTo(WeekOrders, MaxOrders) \ {<<>>} : NewestFirst(list)}

(* Orders that differ in the timestamps they carry: both, createdAt      *)
(* alone, or none                                                          *)

UndatedOrders ==
    {AverageOrder("delivered", CostShapes.split, At(Day0, 15)),
     [CostOrder("pending", CostShapes.promo) EXCEPT !.orderDate = NoDate],
     [CostOrder("pending", CostShapes.small)
         EXCEPT !.orderDate = NoDate, !.createdAt = NoDate],
     [CostOrder("cancelled", CostShapes.promo)
         EXCEPT !.orderDate = NoDate, !.createdAt = NoDate]}

UndatedOrderLists ==
    {list \in SeqsUpTo(UndatedOrders, MaxOrders) \ {<<>>} : NewestFirst(list)}

(* Orders that differ in the products of their lines and in their status: *)
(* one lists its smaller line first, a cancelled one holds a product no    *)
(* other order has                                                         *)

CansOrders ==
    {[AverageOrder("delivered", CostShapes.promo, At(Day0 - 1, 12))
         EXCEPT !.orderSummary.totalPrice = 38,
                !.products = <<Line("Mint", 10, 1), Line("Basil", 10, 2)>>],
     [CostOrder("cancelled", CostShapes.small)
         EXCEPT !.products = <<Line("Aloe", 5, 1)>>],
     CostOrder("pending", CostShapes.promo),
     CostOrder("delivered", CostShapes.split),
     CostOrder("pending", CostShapes.free),
     CostOrder("shipped", CostShapes.small)}

(* Orders around the day the clock starts in, the day after included:     *)
(* live ones with revenue, and on the day after also a cancelled one and a *)
(* live one priced at the delivery fee                                     *)

PartitionOrders ==
    {DateOrder(ts, ts) : ts \in DateStamps}
      \cup {AverageOrder("cancelled", CostShapes.promo, At(Day0 + 1, 1)),
            AverageOrder("pending", CostShapes.free, At(Day0 + 1, 2))}

PartitionOrderLists ==
    {list \in SeqsUpTo(PartitionOrders, MaxOrders) \ {<<>>} : NewestFirst(list)}

\* Every list of line items the model draws
AllProductLists == {CostShapes[n].products : n \in DOMAIN CostShapes}

LineTotal(products) ==
    reduce(LAMBDA sum, p : sum + (p.price * p.quantity), 0, products)

\* A common denominator of the proportional shares
ShareDen == LCMOfSet({LineTotal(ps) : ps \in AllProductLists} \ {0})

Scale == 100 * ShareDen

\* An amount of whole TND, and of hundredths of a TND, in the model's unit
TND(x) == x * Scale

Centimes(x) == x * ShareDen

\* x * (percent / 100), exact on the amounts of the model
Percent(x, percent) == (x * percent) \div 100

\* x * (num / den), exact on the amounts of the model
Share(x, num, den) == (x * num) \div den

----------------------------------------------------------------------------
(* The cost model *)

\* const revenue = order.orderSummary.totalPrice - DELIVERY_FEE
orderRevenue(order) == TND(order.orderSummary.totalPrice) - TND(DELIVERY_FEE)

\* Steps 2 to 5 of calculateProfit, on the revenue of step 1 as it stands
orderProfit(order) ==
    LET revenue == orderRevenue(order)
        numberOfProducts == order.orderSummary.totalItems
        productCosts == TND(numberOfProducts * PRODUCT_COST)
        freeProductCost ==
            IF numberOfProducts >= FreeProductThreshold
            THEN TND(FREE_PRODUCT_COST) ELSE 0
        threePercentDeduction == Percent(revenue, CommissionPercent)
    IN  revenue - productCosts - freeProductCost - threePercentDeduction

\* The "Profit Net" of the order details page (orders/[id]/page.tsx)
orderDetailProfit(order) ==
    LET freeProductQuantity ==
            IF order.orderSummary.totalItems >= FreeProductThreshold THEN 1 ELSE 0
        revenue == TND(order.orderSummary.totalPrice) - TND(DELIVERY_FEE)
        numberOfProducts == order.orderSummary.totalItems
        productCosts == TND(numberOfProducts * PRODUCT_COST)
        freeProductCost ==
            IF freeProductQuantity > 0 THEN TND(FREE_PRODUCT_COST) ELSE 0
        onePercentDeduction == Percent(revenue, DetailCommissionPercent)
    IN  revenue - productCosts - freeProductCost - onePercentDeduction


\* calculateRevenue without Math.max(0, revenue)
calculateRevenueUnclamped(orderList) ==
    reduce(LAMBDA sum, order :
               IF order.status = "cancelled" THEN sum
               ELSE sum + orderRevenue(order),
           0, orderList)

\* calculateRevenue without the test of the status
calculateRevenueOfAll(orderList) ==
    reduce(LAMBDA sum, order : sum + Max(0, orderRevenue(order)), 0, orderList)

calculateRevenue(orderList) ==
    reduce(LAMBDA sum, order :
               IF order.status = "cancelled" THEN sum
               ELSE sum + Max(0, orderRevenue(order)),
           0, orderList)

calculateProfit(orderList) ==
    reduce(LAMBDA sum, order :
               IF order.status = "cancelled" THEN sum
               ELSE sum + orderProfit(order),
           0, orderList)


\* calculateFreeProducts giving away one unit per unit from the third on
calculateFreeProductsPerUnit(orderList) ==
    reduce(LAMBDA sum, order :
               IF order.status = "cancelled" THEN sum
               ELSE sum + (IF order.orderSummary.totalItems >= FreeProductThreshold
                           THEN order.orderSummary.totalItems
                                  - (FreeProductThreshold - 1)
                           ELSE 0),
           0, orderList)

calculateFreeProducts(orderList) ==
    reduce(LAMBDA sum, order :
               IF order.status = "cancelled" THEN sum
               ELSE sum + (IF order.orderSummary.totalItems >= FreeProductThreshold
                           THEN 1 ELSE 0),
           0, orderList)

\* calculateReturnsCost charging every loaded return, whatever the window
calculateReturnsCostOfAll(returnsList) == TND(Len(returns) * RETURN_COST)

calculateReturnsCost(returnsList) == TND(Len(returnsList) * RETURN_COST)

\* orders.filter(o => o.status !== 'cancelled')
notCancelled(orderList) == filter(orderList, LAMBDA o : o.status # "cancelled")

----------------------------------------------------------------------------
(* The date filter.  today and yesterday are local midnights derived from  *)
(* the clock value t the aggregation reads.                                *)

todayOf(t) == setHoursZero(t)

yesterdayOf(t) == todayOf(t) - HoursPerDay

\* inDateFilter with the three partitions cut by the hours elapsed since ts
inDateFilterByDistance(f, ts, range, t) ==
    IF f = "today" THEN ts # NoDate /\ t - ts >= 0 /\ t - ts < HoursPerDay
    ELSE IF f = "yesterday"
         THEN ts # NoDate /\ t - ts >= HoursPerDay /\ t - ts < 2 * HoursPerDay
    ELSE IF f = "days_before" THEN ts # NoDate /\ t - ts >= 2 * HoursPerDay
    ELSE IF f = "custom" THEN
        IF range.from = NoDate THEN TRUE
        ELSE LET from == startOfDay(range.from)
                 to == IF range.to # NoDate THEN endOfDay(range.to)
                       ELSE endOfDay(range.from)
             IN  ts # NoDate /\ ts >= from /\ ts <= to
    ELSE TRUE

\* inDateFilter with the days before reaching through yesterday
inDateFilterBeforeToday(f, ts, range, t) ==
    IF f = "today" THEN ts # NoDate /\ setHoursZero(ts) = todayOf(t)
    ELSE IF f = "yesterday"
         THEN ts # NoDate /\ setHoursZero(ts) = yesterdayOf(t)
    ELSE IF f = "days_before"
         THEN ts # NoDate /\ setHoursZero(ts) < todayOf(t)
    ELSE IF f = "custom" THEN
        IF range.from = NoDate THEN TRUE
        ELSE LET from == startOfDay(range.from)
                 to == IF range.to # NoDate THEN endOfDay(range.to)
                       ELSE endOfDay(range.from)
             IN  ts # NoDate /\ ts >= from /\ ts <= to
    ELSE TRUE

\* Does the record stamped at time ts pass the date filter?  The time value of
\* an invalid Date is NaN, which no comparison holds of.
inDateFilter(f, ts, range, t) ==
    IF f = "today" THEN ts # NoDate /\ setHoursZero(ts) = todayOf(t)
    ELSE IF f = "yesterday"
         THEN ts # NoDate /\ setHoursZero(ts) = yesterdayOf(t)
    ELSE IF f = "days_before"
         THEN ts # NoDate /\ setHoursZero(ts) < yesterdayOf(t)
    ELSE IF f = "custom" THEN
        IF range.from = NoDate THEN TRUE
        ELSE LET from == startOfDay(range.from)
                 to == IF range.to # NoDate THEN endOfDay(range.to)
                       ELSE endOfDay(range.from)
             IN  ts # NoDate /\ ts >= from /\ ts <= to
    ELSE TRUE

filterOrdersByDate(f, orderList, range, t) ==
    filter(orderList, LAMBDA order : inDateFilter(f, OrderTime(order), range, t))

\* returnInDateFilter with yesterday's returns counted among the days before
returnInDateFilterThroughYesterday(f, ts, range, t) ==
    IF f = "today" THEN ts # NoDate /\ setHoursZero(ts) = todayOf(t)
    ELSE IF f = "yesterday"
         THEN ts # NoDate /\ setHoursZero(ts) = yesterdayOf(t)
    ELSE IF f = "days_before"
         THEN ts # NoDate /\ setHoursZero(ts) <= yesterdayOf(t)
    ELSE IF f = "custom" THEN
        IF range.from = NoDate THEN TRUE
        ELSE LET from == startOfDay(range.from)
                 to == IF range.to # NoDate THEN endOfDay(range.to)
                       ELSE endOfDay(range.from)
             IN  ts # NoDate /\ ts >= from /\ ts <= to
    ELSE TRUE

\* The same switch, written a second time in the source for the returns
returnInDateFilter(f, ts, range, t) ==
    IF f = "today" THEN ts # NoDate /\ setHoursZero(ts) = todayOf(t)
    ELSE IF f = "yesterday"
         THEN ts # NoDate /\ setHoursZero(ts) = yesterdayOf(t)
    ELSE IF f = "days_before"
         THEN ts # NoDate /\ setHoursZero(ts) < yesterdayOf(t)
    ELSE IF f = "custom" THEN
        IF range.from = NoDate THEN TRUE
        ELSE LET from == startOfDay(range.from)
                 to == IF range.to # NoDate THEN endOfDay(range.to)
                       ELSE endOfDay(range.from)
             IN  ts # NoDate /\ ts >= from /\ ts <= to
    ELSE TRUE

filterReturnsByDate(f, returnsList, range, t) ==
    filter(returnsList, LAMBDA r : returnInDateFilter(f, r.createdAt, range, t))

----------------------------------------------------------------------------
(* The grouping aggregators *)

\* A JavaScript object used as a map from keys to numbers
EmptyMap == [k \in {} |-> 0]

\* map[key] = (map[key] || 0) + v
MapAdd(map, key, v) ==
    [k \in DOMAIN map \cup {key} |->
        (IF k \in DOMAIN map THEN map[k] ELSE 0) + (IF k = key THEN v ELSE 0)]

\* map[key], or init when the key is absent (if (!map[key]) map[key] = init).
\* The list keeps the keys in the order of their insertion, which is the order
\* of Object.entries
Lookup(list, key, init) ==
    IF \E i \in 1..Len(list) : list[i]._id = key
    THEN LET i == CHOOSE j \in 1..Len(list) : list[j]._id = key IN list[i]
    ELSE init

\* map[key] = entry, a new key going to the end of the list
Upsert(list, key, entry) ==
    IF \E i \in 1..Len(list) : list[i]._id = key
    THEN [i \in 1..Len(list) |-> IF list[i]._id = key THEN entry ELSE list[i]]
    ELSE Append(list, entry)

\* A quotient of two integers, in lowest terms
Ratio(n, d) ==
    LET g == GCD(IF n < 0 THEN 0 - n ELSE n, d)
    IN  [num |-> n \div g, den |-> d \div g]

Zero == [num |-> 0, den |-> 1]

\* 0 / 0
NaN == [num |-> 0, den |-> 0]

\* n / d of two numbers that are integers, d >= 0
Quotient(n, d) ==
    IF d > 0 THEN Ratio(n, d)
    ELSE IF n = 0 THEN NaN
    ELSE [num |-> IF n > 0 THEN 1 ELSE 0 - 1, den |-> 0]


\* revenueByStatus without the test of the status
revenueByStatusOfAll(filteredOrders) ==
    reduce(LAMBDA map, order :
               MapAdd(map, order.status, Max(0, orderRevenue(order))),
           EmptyMap, filteredOrders)

revenueByStatus(filteredOrders) ==
    reduce(LAMBDA map, order :
               IF order.status = "cancelled" THEN map
               ELSE MapAdd(map, order.status, Max(0, orderRevenue(order))),
           EmptyMap, filteredOrders)

profitByStatus(filteredOrders) ==
    reduce(LAMBDA map, order :
               IF order.status = "cancelled" THEN map
               ELSE MapAdd(map, order.status, orderProfit(order)),
           EmptyMap, filteredOrders)

\* A bucket of count, revenue and profit, and one order added to it
Bucket(key) == [_id |-> key, count |-> 0, revenue |-> 0, profit |-> 0]

AddOrder(bucket, order) ==
    [bucket EXCEPT !.count = @ + 1,
                   !.revenue = @ + Max(0, orderRevenue(order)),
                   !.profit = @ + orderProfit(order)]

ordersByCity(filteredOrders) ==
    reduce(LAMBDA list, order :
               IF order.status = "cancelled" THEN list
               ELSE Upsert(list, order.customer.city,
                           LET b == Lookup(list, order.customer.city,
                               Bucket(order.customer.city))
                           IN  AddOrder(b, order)),
           <<>>, filteredOrders)


\* attributeOrder with the order split evenly over its lines
attributeOrderEvenly(list, order) ==
    LET orderTotalProducts == LineTotal(order.products)
    IN  reduce(LAMBDA acc, product :
                   Upsert(acc, product.name,
                          LET e == Lookup(acc, product.name,
                              [_id |-> product.name, totalQuantity |-> 0,
                              totalRevenue |-> 0, totalProfit |-> 0,
                              orderCount |-> 0])
                          IN  [e EXCEPT
                                 !.totalQuantity = @ + product.quantity,
                                 !.totalRevenue =
                                     IF orderTotalProducts > 0
                                     THEN @ + Share(Max(0, orderRevenue(order)),
                                                    1, Len(order.products))
                                     ELSE @,
                                 !.totalProfit =
                                     IF orderTotalProducts > 0
                                     THEN @ + Share(orderProfit(order),
                                                    1, Len(order.products))
                                     ELSE @,
                                 !.orderCount = @ + 1]),
               list, order.products)

\* attributeOrder with the share taken on the unit price, not on price * quantity
attributeOrderByUnitPrice(list, order) ==
    LET orderTotalProducts == LineTotal(order.products)
    IN  reduce(LAMBDA acc, product :
                   Upsert(acc, product.name,
                          LET e == Lookup(acc, product.name,
                              [_id |-> product.name, totalQuantity |-> 0,
                              totalRevenue |-> 0, totalProfit |-> 0,
                              orderCount |-> 0])
                          IN  [e EXCEPT
                                 !.totalQuantity = @ + product.quantity,
                                 !.totalRevenue =
                                     IF orderTotalProducts > 0
                                     THEN @ + Share(Max(0, orderRevenue(order)),
                                                    product.price,
                                                    orderTotalProducts)
                                     ELSE @,
                                 !.totalProfit =
                                     IF orderTotalProducts > 0
                                     THEN @ + Share(orderProfit(order),
                                                    product.price,
                                                    orderTotalProducts)
                                     ELSE @,
                                 !.orderCount = @ + 1]),
               list, order.products)

\* order.products.forEach(...) of the per-product attribution, for one order
attributeOrder(list, order) ==
    LET orderTotalProducts == LineTotal(order.products)
    IN  reduce(LAMBDA acc, product :
                   Upsert(acc, product.name,
                          LET e == Lookup(acc, product.name,
                              [_id |-> product.name, totalQuantity |-> 0,
                              totalRevenue |-> 0, totalProfit |-> 0,
                              orderCount |-> 0])
                          IN  [e EXCEPT
                                 !.totalQuantity = @ + product.quantity,
                                 !.totalRevenue =
                                     IF orderTotalProducts > 0
                                     THEN @ + Share(Max(0, orderRevenue(order)),
                                                    product.price * product.quantity,
                                                    orderTotalProducts)
                                     ELSE @,
                                 !.totalProfit =
                                     IF orderTotalProducts > 0
                                     THEN @ + Share(orderProfit(order),
                                                    product.price * product.quantity,
                                                    orderTotalProducts)
                                     ELSE @,
                                 !.orderCount = @ + 1]),
               list, order.products)

topProducts(filteredOrders) ==
    reduce(LAMBDA list, order :
               IF order.status = "cancelled" THEN list
               ELSE attributeOrder(list, order),
           <<>>, filteredOrders)

ordersOverTime(filteredOrders) ==
    reduce(LAMBDA list, order :
               IF order.status = "cancelled" THEN list
               ELSE Upsert(list, toISODate(OrderTime(order)),
                           LET b == Lookup(list, toISODate(OrderTime(order)),
                               Bucket(toISODate(OrderTime(order))))
                           IN  AddOrder(b, order)),
           <<>>, filteredOrders)

\* n.toString().padStart(2, '0')
padStart2(n) == (IF n < 10 THEN "0" ELSE "") \o ToString(n)

\* ordersByHourArray with the cancelled orders counted
ordersByHourArrayOfAll(filteredOrders) ==
    LET ordersByHour ==
            reduce(LAMBDA map, order :
                       MapAdd(map, getHours(OrderTime(order)), 1),
                   EmptyMap, filteredOrders)
    IN  [i \in 1..24 |->
            [hour |-> i - 1,
             hourLabel |-> padStart2(i - 1) \o ":00",
             count |-> IF (i - 1) \in DOMAIN ordersByHour
                       THEN ordersByHour[i - 1] ELSE 0]]

ordersByHourArray(filteredOrders) ==
    LET ordersByHour ==
            reduce(LAMBDA map, order :
                       IF order.status = "cancelled" THEN map
                       ELSE MapAdd(map, getHours(OrderTime(order)), 1),
                   EmptyMap, filteredOrders)
    IN  [i \in 1..24 |->
            [hour |-> i - 1,
             hourLabel |-> padStart2(i - 1) \o ":00",
             count |-> IF (i - 1) \in DOMAIN ordersByHour
                       THEN ordersByHour[i - 1] ELSE 0]]

dayNames ==
    <<"Dimanche", "Lundi", "Mardi", "Mercredi", "Jeudi", "Vendredi", "Samedi">>

ordersByDayOfWeekArray(filteredOrders) ==
    LET count ==
            reduce(LAMBDA map, order :
                       IF order.status = "cancelled" THEN map
                       ELSE MapAdd(map, getDay(OrderTime(order)), 1),
                   EmptyMap, filteredOrders)
        revenue ==
            reduce(LAMBDA map, order :
                       IF order.status = "cancelled" THEN map
                       ELSE MapAdd(map, getDay(OrderTime(order)),
                                   Max(0, orderRevenue(order))),
                   EmptyMap, filteredOrders)
    IN  [i \in 1..Len(dayNames) |->
            [day |-> dayNames[i], dayIndex |-> i - 1,
             count |-> IF (i - 1) \in DOMAIN count THEN count[i - 1] ELSE 0,
             revenue |-> IF (i - 1) \in DOMAIN revenue
                         THEN revenue[i - 1] ELSE 0]]

----------------------------------------------------------------------------
(* The rolling averages *)

validOrders(orderList, statusFilter) ==
    filter(orderList,
           LAMBDA o : /\ o.status # "cancelled"
                      /\ (statusFilter = "all" \/ o.status = statusFilter))

\* The week counted from January 1st, whatever its weekday
weekKeyFromJanuaryFirst(t) ==
    LET year == getFullYear(t)
        days == Civil(LocalDay(t)).dayOfYear
        weekNumber == (days + 1 + 6) \div 7
    IN  <<year, weekNumber>>

weekKey(t) ==
    LET year == getFullYear(t)
        days == Civil(LocalDay(t)).dayOfYear
        startOfYearDay == (LocalDay(t) - days) % 7
        weekNumber == (days + startOfYearDay + 1 + 6) \div 7
    IN  <<year, weekNumber>>

monthKey(t) == <<getFullYear(t), getMonth(t) + 1>>

\* The buckets of one granularity, key(t) being the bucket of an instant
bucketKey(granularity, t) ==
    CASE granularity = "date" -> toISODate(t)
      [] granularity = "week" -> weekKey(t)
      [] granularity = "month" -> monthKey(t)

bucketsBy(granularity, valid) ==
    LET key(t) == bucketKey(granularity, t) IN
    reduce(LAMBDA list, order :
               Upsert(list, key(OrderTime(order)),
                      LET b == Lookup(list, key(OrderTime(order)),
                          Bucket(key(OrderTime(order))))
                      IN  AddOrder(b, order)),
           <<>>, valid)

sumOf(list, field) == reduce(LAMBDA sum, b : sum + b[field], 0, list)

\* The sum divided by the number of orders instead of the number of buckets
averageOfPerOrder(list, field) ==
    IF Len(list) > 0 THEN Ratio(sumOf(list, field), sumOf(list, "count")) ELSE Zero

\* unique > 0 ? sum / unique : 0
averageOf(list, field) ==
    IF Len(list) > 0 THEN Ratio(sumOf(list, field), Len(list)) ELSE Zero

----------------------------------------------------------------------------
(* Customer metrics, conversion rate and items per order *)

\* order.customer.email || order.customer.phone
customerId(order) ==
    IF order.customer.email # "" THEN order.customer.email
    ELSE order.customer.phone

uniqueCustomers(filteredOrders) ==
    {customerId(o) : o \in Range(notCancelled(filteredOrders))}

customerOrderCount(filteredOrders) ==
    reduce(LAMBDA map, order :
               IF order.status = "cancelled" THEN map
               ELSE MapAdd(map, customerId(order), 1),
           EmptyMap, filteredOrders)

repeatCustomers(filteredOrders) ==
    LET count == customerOrderCount(filteredOrders)
    IN  Cardinality({id \in DOMAIN count : count[id] > 1})

avgOrdersPerCustomer(filteredOrders) ==
    IF Cardinality(uniqueCustomers(filteredOrders)) > 0
    THEN Ratio(Len(notCancelled(filteredOrders)),
               Cardinality(uniqueCustomers(filteredOrders)))
    ELSE Zero

\* conversionRate dividing by every order of the window, cancelled or not
conversionRateOfAll(filteredOrders) ==
    IF Len(filteredOrders) > 0
    THEN Quotient(Len(filter(filteredOrders,
                             LAMBDA o : o.status = "delivered")) * 100,
                  Len(filteredOrders))
    ELSE Zero

conversionRate(filteredOrders) ==
    IF Len(filteredOrders) > 0
    THEN Quotient(Len(filter(filteredOrders,
                             LAMBDA o : o.status = "delivered")) * 100,
                  Len(notCancelled(filteredOrders)))
    ELSE Zero

avgItemsPerOrder(filteredOrders) ==
    IF Len(notCancelled(filteredOrders)) > 0
    THEN Ratio(reduce(LAMBDA sum, o : sum + o.orderSummary.totalItems, 0,
                      notCancelled(filteredOrders)),
               Len(notCancelled(filteredOrders)))
    ELSE Zero

\* The fields of the result that count customers, deliveries and items
derivedMetrics(ords, f, range, t) ==
    LET filteredOrders == filterOrdersByDate(f, ords, range, t)
    IN  [uniqueCustomersCount |-> Cardinality(uniqueCustomers(filteredOrders)),
         repeatCustomersCount |-> repeatCustomers(filteredOrders),
         avgOrdersPerCustomer |-> avgOrdersPerCustomer(filteredOrders),
         conversionRate |-> conversionRate(filteredOrders),
         avgItemsPerOrder |-> avgItemsPerOrder(filteredOrders)]

----------------------------------------------------------------------------
(* Sold cans: by status, by plant type, and for the selected plant type *)

\* The keys of soldCansByStatus, the values of cansStatusFilter
CansStatuses ==
    {"all", "pending", "confirmed", "preparing", "shipped", "delivered"}

calculateSoldCans(orderList, statusFilter) ==
    reduce(LAMBDA sum, order :
               IF order.status = "cancelled" THEN sum
               ELSE IF statusFilter # "all" /\ order.status # statusFilter THEN sum
               ELSE sum + order.orderSummary.totalItems,
           0, orderList)

soldCansByStatus(orderList) ==
    [statusFilter \in CansStatuses |-> calculateSoldCans(orderList, statusFilter)]

\* cansByPlantTypeMap[plantType] += product.quantity, a new key going last
addCans(map, product) ==
    IF \E i \in 1..Len(map) : map[i].name = product.name
    THEN [i \in 1..Len(map) |->
             IF map[i].name = product.name
             THEN [map[i] EXCEPT !.count = @ + product.quantity]
             ELSE map[i]]
    ELSE Append(map, [name |-> product.name, count |-> product.quantity])

\* cansByPlantTypeMap over every order, cancelled or of another status
cansByPlantTypeMapOfAll(orderList, statusFilter) ==
    reduce(LAMBDA map, order : reduce(addCans, map, order.products),
           <<>>, orderList)

cansByPlantTypeMap(orderList, statusFilter) ==
    reduce(LAMBDA map, order :
               IF order.status = "cancelled" THEN map
               ELSE IF statusFilter # "all" /\ order.status # statusFilter THEN map
               ELSE reduce(addCans, map, order.products),
           <<>>, orderList)

\* .sort((a, b) => b.count - a.count): stable, the larger count first
RECURSIVE sortByCountDesc(_)
sortByCountDesc(list) ==
    IF list = <<>> THEN <<>>
    ELSE LET rest == sortByCountDesc(Tail(list))
             before == filter(rest, LAMBDA e : e.count > Head(list).count)
             after == filter(rest, LAMBDA e : e.count <= Head(list).count)
         IN  before \o <<Head(list)>> \o after

cansByPlantType(orderList, statusFilter) ==
    sortByCountDesc(cansByPlantTypeMap(orderList, statusFilter))

\* The product names of the model in the order of Array.prototype.sort()
PlantNames == <<"Aloe", "Basil", "Mint">>

\* Array.from(new Set(orders.flatMap(...))).sort()
allPlantTypes(orderList) ==
    filter(PlantNames,
           LAMBDA name : \E i \in 1..Len(orderList) :
                            \E k \in 1..Len(orderList[i].products) :
                                orderList[i].products[k].name = name)

soldCansForSelectedPlantType(orderList, statusFilter, plantType) ==
    IF plantType = "all" THEN soldCansByStatus(orderList)[statusFilter]
    ELSE reduce(LAMBDA sum, order :
                    IF order.status = "cancelled" THEN sum
                    ELSE IF statusFilter # "all" /\ order.status # statusFilter
                         THEN sum
                    ELSE sum + reduce(LAMBDA productSum, p : productSum + p.quantity,
                                      0,
                                      filter(order.products,
                                             LAMBDA p : p.name = plantType)),
                0, orderList)

\* The fields of the result that count cans
derivedCans(ords, cansF, plantF) ==
    [soldCansByStatus |-> soldCansByStatus(ords),
     cansByPlantType |-> cansByPlantType(ords, cansF),
     allPlantTypes |-> allPlantTypes(ords),
     soldCansForSelectedPlantType |->
         soldCansForSelectedPlantType(ords, cansF, plantF)]

----------------------------------------------------------------------------
(* adjustedStats: the callback of useMemo, reading the clock value t *)

derivedStats(ords, rets, f, range, cansF, plantF, avgF, t) ==
    LET todayOrders == filterOrdersByDate("today", ords, range, t)
        yesterdayOrders == filterOrdersByDate("yesterday", ords, range, t)
        daysBeforeOrders == filterOrdersByDate("days_before", ords, range, t)
        filteredOrders == filterOrdersByDate(f, ords, range, t)
        filteredReturns == filterReturnsByDate(f, rets, range, t)
        todayReturns == filterReturnsByDate("today", rets, range, t)
        yesterdayReturns == filterReturnsByDate("yesterday", rets, range, t)
        daysBeforeReturns == filterReturnsByDate("days_before", rets, range, t)
        filteredRevenue == calculateRevenue(filteredOrders)
        filteredProfit ==
            calculateProfit(notCancelled(filteredOrders))
              - calculateReturnsCost(filteredReturns)
        valid == validOrders(ords, avgF)
        ordersByDate == bucketsBy("date", valid)
        ordersByWeek == bucketsBy("week", valid)
        ordersByMonth == bucketsBy("month", valid)
    IN  [totalRevenue |-> filteredRevenue,
         totalProfit |-> filteredProfit,
         totalFreeProducts |-> calculateFreeProducts(notCancelled(ords)),
         todayRevenue |-> calculateRevenue(todayOrders),
         todayProfit |->
             calculateProfit(notCancelled(todayOrders))
               - calculateReturnsCost(todayReturns),
         yesterdayRevenue |-> calculateRevenue(yesterdayOrders),
         yesterdayProfit |->
             calculateProfit(notCancelled(yesterdayOrders))
               - calculateReturnsCost(yesterdayReturns),
         daysBeforeRevenue |-> calculateRevenue(daysBeforeOrders),
         daysBeforeProfit |->
             calculateProfit(notCancelled(daysBeforeOrders))
               - calculateReturnsCost(daysBeforeReturns),
         revenueByStatus |-> revenueByStatus(filteredOrders),
         profitByStatus |-> profitByStatus(filteredOrders),
         ordersByCity |-> ordersByCity(filteredOrders),
         topProducts |-> topProducts(filteredOrders),
         ordersOverTime |-> ordersOverTime(filteredOrders),
         avgOrderValue |->
             IF Len(filteredOrders) > 0
             THEN Ratio(filteredRevenue, Len(filteredOrders)) ELSE Zero,
         avgProfitPerOrder |->
             IF Len(notCancelled(filteredOrders)) > 0
             THEN Ratio(filteredProfit, Len(notCancelled(filteredOrders)))
             ELSE Zero,
         filteredOrdersCount |-> Len(filteredOrders),
         ordersByHour |-> ordersByHourArray(filteredOrders),
         ordersByDayOfWeek |-> ordersByDayOfWeekArray(filteredOrders),
         avgDailyRevenue |-> averageOf(ordersByDate, "revenue"),
         avgDailyProfit |-> averageOf(ordersByDate, "profit"),
         avgWeeklyRevenue |-> averageOf(ordersByWeek, "revenue"),
         avgWeeklyProfit |-> averageOf(ordersByWeek, "profit"),
         avgMonthlyRevenue |-> averageOf(ordersByMonth, "revenue"),
         avgMonthlyProfit |-> averageOf(ordersByMonth, "profit"),
         returnsCount |-> Len(filteredReturns)]

\* if (!stats || !orders.length) return stats; else { ...stats, <derived> }
\* new Date(undefined).toISOString() throws: the callback ends with it when a
\* live order without any timestamp reaches the per-day grouping of the
\* window or the per-day grouping of the averages
RangeError == [raised |-> "RangeError: Invalid time value"]

throwsRangeError(ords, f, range, avgF, t) ==
    \/ \E o \in Range(notCancelled(filterOrdersByDate(f, ords, range, t))) :
           OrderTime(o) = NoDate
    \/ \E o \in Range(validOrders(ords, avgF)) : OrderTime(o) = NoDate

computeStats(st, ords, rets, f, range, cansF, plantF, avgF, t) ==
    IF st = Null \/ Len(ords) = 0 THEN st
    ELSE IF throwsRangeError(ords, f, range, avgF, t) THEN RangeError
    ELSE derivedStats(ords, rets, f, range, cansF, plantF, avgF, t)
           @@ derivedMetrics(ords, f, range, t)
           @@ derivedCans(ords, cansF, plantF) @@ st

----------------------------------------------------------------------------
(* The state machine *)

Init(dbs) ==
    /\ orders = <<>>
    /\ stats = Null
    /\ loading = TRUE
    /\ returns = <<>>
    /\ addingReturn = FALSE
    /\ dateFilter = "all"
    /\ dateRange = NoRange
    /\ cansStatusFilter = "all"
    /\ plantTypeFilter = "all"
    /\ averagesStatusFilter = "all"
    /\ now = Now0
    /\ memoNow = Now0
    /\ returnsDb \in dbs
    /\ postInFlight = FALSE
    /\ getsInFlight = 1
    /\ getResponses = <<>>

\* The value held by useMemo: the callback's result on the dependencies, at the
\* clock value of its last run
adjustedStats ==
    computeStats(stats, orders, returns, dateFilter, dateRange,
                 cansStatusFilter, plantTypeFilter, averagesStatusFilter, memoNow)

\* A dependency of useMemo got a new value: the callback runs again, now
Recomputed == memoNow' = now

Kept == UNCHANGED memoNow

\* The fetchOrders of the initial load, answered with a list of orders
FetchOrdersOk(list) ==
    /\ loading
    /\ orders' = list
    /\ loading' = FALSE
    /\ UNCHANGED <<stats, returns, addingReturn, dateFilter, dateRange,
                   cansStatusFilter, plantTypeFilter, averagesStatusFilter,
                   now, returnsDb, postInFlight, getsInFlight,
                   getResponses>>
    /\ Recomputed

\* fetchOrders, answered without an 'orders' field: setOrders(data.orders || [])
FetchOrdersNoField ==
    /\ orders' = <<>>
    /\ loading' = FALSE
    /\ UNCHANGED <<stats, returns, addingReturn, dateFilter, dateRange,
                   cansStatusFilter, plantTypeFilter, averagesStatusFilter,
                   now, returnsDb, postInFlight, getsInFlight,
                   getResponses>>
    /\ Recomputed

\* fetchOrders whose catch empties the list
FetchOrdersFailClearing ==
    /\ orders' = <<>>
    /\ loading' = FALSE
    /\ UNCHANGED <<stats, returns, addingReturn, dateFilter, dateRange,
                   cansStatusFilter, plantTypeFilter, averagesStatusFilter,
                   now, returnsDb, postInFlight, getsInFlight,
                   getResponses>>
    /\ Recomputed

\* fetchOrders, the request or response.json() throwing: catch, then finally
FetchOrdersFail ==
    /\ loading' = FALSE
    /\ UNCHANGED <<orders, stats, returns, addingReturn, dateFilter, dateRange,
                   cansStatusFilter, plantTypeFilter, averagesStatusFilter,
                   now, returnsDb, postInFlight, getsInFlight,
                   getResponses>>
    /\ Kept

\* The fetchOrders of the refresh button, answered with a list of orders
RefetchOrdersOk(list) ==
    /\ ~loading
    /\ orders' = list
    /\ UNCHANGED <<loading, stats, returns, addingReturn, dateFilter, dateRange,
                   cansStatusFilter, plantTypeFilter, averagesStatusFilter,
                   now, returnsDb, postInFlight, getsInFlight,
                   getResponses>>
    /\ Recomputed

\* fetchStats, answered
FetchStatsOk ==
    /\ stats' = BackendStats
    /\ UNCHANGED <<orders, loading, returns, addingReturn, dateFilter,
                   dateRange, cansStatusFilter, plantTypeFilter,
                   averagesStatusFilter, now, returnsDb, postInFlight,
                   getsInFlight,
                   getResponses>>
    /\ Recomputed

\* Return.find({}).sort({ createdAt: -1 })
RECURSIVE sortByCreatedAtDesc(_)
sortByCreatedAtDesc(list) ==
    IF list = <<>> THEN <<>>
    ELSE LET rest == sortByCreatedAtDesc(Tail(list))
             before == filter(rest, LAMBDA r : r.createdAt > Head(list).createdAt)
             after == filter(rest, LAMBDA r : r.createdAt <= Head(list).createdAt)
         IN  before \o <<Head(list)>> \o after

\* fetchReturns, answered by GET /api/returns with success: true
FetchReturnsOk ==
    /\ getsInFlight > 0
    /\ getsInFlight' = getsInFlight - 1
    /\ returns' = sortByCreatedAtDesc(returnsDb)
    /\ UNCHANGED <<orders, stats, loading, addingReturn, dateFilter, dateRange,
                   cansStatusFilter, plantTypeFilter, averagesStatusFilter,
                   now, returnsDb, postInFlight, getResponses>>
    /\ Recomputed

\* SelectDateFilter with the date range left as it is under 'all'
SelectDateFilterKeepingRange(value) ==
    /\ ~loading
    /\ stats # Null
    /\ dateFilter' = value
    /\ dateRange' =
           IF value = "today" THEN [from |-> now, to |-> now]
           ELSE IF value = "yesterday"
                THEN [from |-> subDays(now, 1), to |-> subDays(now, 1)]
           ELSE dateRange
    /\ UNCHANGED <<orders, stats, loading, returns, addingReturn,
                   cansStatusFilter, plantTypeFilter, averagesStatusFilter,
                   now, returnsDb, postInFlight, getsInFlight,
                   getResponses>>
    /\ IF \/ value # dateFilter
          \/ value \in {"today", "yesterday"}
       THEN Recomputed ELSE Kept

\* The date filter Select's onValueChange
SelectDateFilter(value) ==
    /\ ~loading
    /\ stats # Null
    /\ dateFilter' = value
    /\ dateRange' =
           IF value = "today" THEN [from |-> now, to |-> now]
           ELSE IF value = "yesterday"
                THEN [from |-> subDays(now, 1), to |-> subDays(now, 1)]
           ELSE IF value = "all" THEN NoRange
           ELSE dateRange
    /\ UNCHANGED <<orders, stats, loading, returns, addingReturn,
                   cansStatusFilter, plantTypeFilter, averagesStatusFilter,
                   now, returnsDb, postInFlight, getsInFlight,
                   getResponses>>
    /\ IF \/ value # dateFilter
          \/ value \in {"today", "yesterday"}
          \/ (value = "all" /\ dateRange # NoRange)
       THEN Recomputed ELSE Kept

DateFilters == {"all", "today", "yesterday", "days_before", "custom"}

NextCost ==
    \/ \E list \in SeqsUpTo(CostOrders, MaxOrders) \ {<<>>} : FetchOrdersOk(list)
    \/ FetchStatsOk
    \/ FetchReturnsOk
    \/ \E value \in DateFilters : SelectDateFilter(value)

SpecCost == Init(CostReturnDbs) /\ [][NextCost]_vars

----------------------------------------------------------------------------
(* The calendar, the clock and the returns endpoint *)

\* The Calendar's onSelect: setDateRange(range); if (range?.from)
\* setDateFilter("custom").  A cleared selection arrives as undefined.
CalendarSelect(range) ==
    /\ ~loading
    /\ stats # Null
    /\ dateRange' = range
    /\ dateFilter' = IF range.from # NoDate THEN "custom" ELSE dateFilter
    /\ UNCHANGED <<orders, stats, loading, returns, addingReturn,
                   cansStatusFilter, plantTypeFilter, averagesStatusFilter,
                   now, returnsDb, postInFlight, getsInFlight,
                   getResponses>>
    /\ IF range # NoRange \/ dateRange # NoRange \/ dateFilter' # dateFilter
       THEN Recomputed ELSE Kept

\* The days the calendar offers: a day is picked as its local midnight
CalendarDays == (Day0 - 1)..Day0

\* mode="range": a first day alone, or a first and a last day in order
CalendarRanges ==
    {[from |-> At(d, 0), to |-> NoDate] : d \in CalendarDays}
    \cup {[from |-> At(r[1], 0), to |-> At(r[2], 0)] :
              r \in {x \in CalendarDays \X CalendarDays : x[1] <= x[2]}}
    \cup {NoRange}

\* An hour passes on the clock new Date() reads; nothing re-renders
Tick ==
    /\ now < Now0 + MaxTicks
    /\ now' = now + 1
    /\ UNCHANGED <<orders, stats, loading, returns, addingReturn, dateFilter,
                   dateRange, cansStatusFilter, plantTypeFilter,
                   averagesStatusFilter, returnsDb, postInFlight,
                   getsInFlight,
                   getResponses>>
    /\ Kept

\* addReturn, confirmed: setAddingReturn(true) and the POST leaves
AddReturnConfirm ==
    /\ ~loading
    /\ ~addingReturn
    /\ Len(returnsDb) < MaxReturns
    /\ addingReturn' = TRUE
    /\ postInFlight' = TRUE
    /\ UNCHANGED <<orders, stats, loading, returns, dateFilter, dateRange,
                   cansStatusFilter, plantTypeFilter, averagesStatusFilter,
                   now, returnsDb, getsInFlight,
                   getResponses>>
    /\ Kept

\* POST /api/returns: Return.create({}) stores a return with the schema's
\* defaults; the response is ok, so addReturn calls fetchReturns() and, in
\* its finally, setAddingReturn(false)
PostOk ==
    /\ postInFlight
    /\ returnsDb' = Append(returnsDb, MkReturn(now))
    /\ getsInFlight' = getsInFlight + 1
    /\ postInFlight' = FALSE
    /\ addingReturn' = FALSE
    /\ UNCHANGED <<orders, stats, loading, returns, dateFilter, dateRange,
                   cansStatusFilter, plantTypeFilter, averagesStatusFilter,
                   now, getResponses>>
    /\ Kept

\* POST /api/returns answering 500, or the request failing: nothing is
\* stored and nothing is fetched
PostFail ==
    /\ postInFlight
    /\ postInFlight' = FALSE
    /\ addingReturn' = FALSE
    /\ UNCHANGED <<orders, stats, loading, returns, dateFilter, dateRange,
                   cansStatusFilter, plantTypeFilter, averagesStatusFilter,
                   now, returnsDb, getsInFlight,
                   getResponses>>
    /\ Kept

\* addReturn, declined: 'if (!confirm(...)) return' comes before every state
\* change and before the request
AddReturnDecline ==
    /\ ~loading
    /\ ~addingReturn
    /\ UNCHANGED vars

\* GET /api/returns on the server: Return.find({}).sort({ createdAt: -1 })
\* is read now and answered with success: true; the response travels back
GetOk ==
    /\ getsInFlight > 0
    /\ getsInFlight' = getsInFlight - 1
    /\ getResponses' = Append(getResponses,
                              [success |-> TRUE,
                               data |-> sortByCreatedAtDesc(returnsDb)])
    /\ UNCHANGED <<orders, stats, loading, returns, addingReturn, dateFilter,
                   dateRange, cansStatusFilter, plantTypeFilter,
                   averagesStatusFilter, now, returnsDb, postInFlight>>
    /\ Kept

\* GET /api/returns failing on the server: status 500 with success: false
\* and no data
GetFail ==
    /\ getsInFlight > 0
    /\ getsInFlight' = getsInFlight - 1
    /\ getResponses' = Append(getResponses, [success |-> FALSE, data |-> <<>>])
    /\ UNCHANGED <<orders, stats, loading, returns, addingReturn, dateFilter,
                   dateRange, cansStatusFilter, plantTypeFilter,
                   averagesStatusFilter, now, returnsDb, postInFlight>>
    /\ Kept

withoutResponse(i) ==
    SubSeq(getResponses, 1, i - 1) \o SubSeq(getResponses, i + 1, Len(getResponses))

\* fetchReturns resumes with every response it is handed
fetchReturnsResumesUnconditionally(i) ==
    /\ i \in 1..Len(getResponses)
    /\ getResponses' = withoutResponse(i)
    /\ returns' = getResponses[i].data
    /\ UNCHANGED <<orders, stats, loading, addingReturn, dateFilter, dateRange,
                   cansStatusFilter, plantTypeFilter, averagesStatusFilter,
                   now, returnsDb, postInFlight, getsInFlight>>
    /\ Recomputed

\* fetchReturns resumes with one of the responses on their way, in any
\* order: 'if (data.success) setReturns(data.data)', and nothing otherwise
fetchReturnsResumes(i) ==
    /\ i \in 1..Len(getResponses)
    /\ getResponses' = withoutResponse(i)
    /\ IF getResponses[i].success
       THEN /\ returns' = getResponses[i].data
            /\ Recomputed
       ELSE /\ UNCHANGED returns
            /\ Kept
    /\ UNCHANGED <<orders, stats, loading, addingReturn, dateFilter, dateRange,
                   cansStatusFilter, plantTypeFilter, averagesStatusFilter,
                   now, returnsDb, postInFlight, getsInFlight>>

NextDate ==
    \/ \E list \in DateOrderLists : FetchOrdersOk(list)
    \/ FetchStatsOk
    \/ FetchReturnsOk
    \/ \E value \in DateFilters : SelectDateFilter(value)
    \/ \E range \in CalendarRanges : CalendarSelect(range)
    \/ Tick

SpecDate == Init(DateReturnDbs) /\ [][NextDate]_vars

\* The status Select of the averages: onValueChange sets averagesStatusFilter
SelectAveragesStatus(value) ==
    /\ ~loading
    /\ stats # Null
    /\ averagesStatusFilter' = value
    /\ UNCHANGED <<orders, stats, loading, returns, addingReturn, dateFilter,
                   dateRange, cansStatusFilter, plantTypeFilter, now,
                   returnsDb, postInFlight, getsInFlight,
                   getResponses>>
    /\ IF value # averagesStatusFilter THEN Recomputed ELSE Kept

AverageStatuses ==
    {"all", "pending", "confirmed", "preparing", "shipped", "delivered"}

NextAverages ==
    \/ \E list \in AverageOrderLists : FetchOrdersOk(list)
    \/ FetchStatsOk
    \/ FetchReturnsOk
    \/ \E value \in DateFilters : SelectDateFilter(value)
    \/ \E value \in AverageStatuses : SelectAveragesStatus(value)

SpecAverages == Init(CostReturnDbs) /\ [][NextAverages]_vars

NextWeek ==
    \/ \E list \in WeekOrderLists : FetchOrdersOk(list)
    \/ FetchStatsOk
    \/ FetchReturnsOk

SpecWeek == Init(CostReturnDbs) /\ [][NextWeek]_vars

NextUndated ==
    \/ \E list \in UndatedOrderLists : FetchOrdersOk(list)
    \/ FetchStatsOk
    \/ FetchReturnsOk
    \/ \E value \in DateFilters : SelectDateFilter(value)
    \/ \E value \in AverageStatuses : SelectAveragesStatus(value)

SpecUndated == Init(CostReturnDbs) /\ [][NextUndated]_vars

\* The status Select of the cans: onValueChange sets cansStatusFilter
SelectCansStatus(value) ==
    /\ ~loading
    /\ stats # Null
    /\ cansStatusFilter' = value
    /\ UNCHANGED <<orders, stats, loading, returns, addingReturn, dateFilter,
                   dateRange, plantTypeFilter, averagesStatusFilter, now,
                   returnsDb, postInFlight, getsInFlight,
                   getResponses>>
    /\ IF value # cansStatusFilter THEN Recomputed ELSE Kept

\* The items of the plant type Select: 'all' and adjustedStats.allPlantTypes
PlantTypeItems ==
    {"all"} \cup (IF Len(orders) > 0 THEN Range(adjustedStats.allPlantTypes) ELSE {})

\* The plant type Select: onValueChange={setPlantTypeFilter}
SelectPlantType(value) ==
    /\ ~loading
    /\ stats # Null
    /\ value \in PlantTypeItems
    /\ plantTypeFilter' = value
    /\ UNCHANGED <<orders, stats, loading, returns, addingReturn, dateFilter,
                   dateRange, cansStatusFilter, averagesStatusFilter, now,
                   returnsDb, postInFlight, getsInFlight,
                   getResponses>>
    /\ IF value # plantTypeFilter THEN Recomputed ELSE Kept

NextCans ==
    \/ \E list \in SeqsUpTo(CansOrders, MaxOrders) \ {<<>>} : FetchOrdersOk(list)
    \/ FetchStatsOk
    \/ FetchReturnsOk
    \/ \E value \in {"all", "today"} : SelectDateFilter(value)
    \/ \E value \in {"all", "pending", "delivered"} : SelectCansStatus(value)
    \/ \E value \in {"all"} \cup Range(PlantNames) : SelectPlantType(value)

SpecCans == Init(CostReturnDbs) /\ [][NextCans]_vars

NextPartition ==
    \/ \E list \in PartitionOrderLists : FetchOrdersOk(list)
    \/ FetchStatsOk
    \/ FetchReturnsOk
    \/ Tick

SpecPartition == Init(DateReturnDbs) /\ [][NextPartition]_vars

NextLoading ==
    \/ \E list \in ReturnOrderLists : FetchOrdersOk(list)
    \/ FetchOrdersNoField
    \/ FetchOrdersFail
    \/ \E list \in ReturnOrderLists : RefetchOrdersOk(list)
    \/ FetchStatsOk
    \/ FetchReturnsOk
    \/ \E value \in DateFilters : SelectDateFilter(value)

SpecLoading == Init(ReturnDbs) /\ [][NextLoading]_vars

\* The orders endpoint may answer with no order at all
NextMetrics ==
    \/ \E list \in SeqsUpTo(MetricOrders, MaxOrders) : FetchOrdersOk(list)
    \/ FetchStatsOk
    \/ FetchReturnsOk
    \/ \E value \in DateFilters : SelectDateFilter(value)

SpecMetrics == Init(CostReturnDbs) /\ [][NextMetrics]_vars

(* The returns protocol with the GET requests and their responses apart:  *)
(* the responses come back in any order                                   *)
NextRefresh ==
    \/ \E list \in ReturnOrderLists : FetchOrdersOk(list)
    \/ FetchStatsOk
    \/ AddReturnDecline
    \/ AddReturnConfirm
    \/ PostOk
    \/ PostFail
    \/ GetOk
    \/ GetFail
    \/ \E i \in 1..Len(getResponses) : fetchReturnsResumes(i)

SpecRefresh == Init(ReturnDbs) /\ [][NextRefresh]_vars

NextReturns ==
    \/ \E list \in ReturnOrderLists : FetchOrdersOk(list)
    \/ FetchStatsOk
    \/ FetchReturnsOk
    \/ \E value \in DateFilters : SelectDateFilter(value)
    \/ Tick
    \/ AddReturnConfirm
    \/ PostOk
    \/ PostFail

SpecReturns == Init(ReturnDbs) /\ [][NextReturns]_vars

----------------------------------------------------------------------------
(* What the claims are stated in *)

\* The held value carries the derived fields: stats is loaded and orders is
\* not empty, so the callback went past its early return
Derived == stats # Null /\ Len(orders) > 0

RECURSIVE SumOver(_, _)
SumOver(f(_), S) ==
    IF S = {} THEN 0
    ELSE LET x == CHOOSE y \in S : TRUE IN f(x) + SumOver(f, S \ {x})

SumMap(map) == SumOver(LAMBDA k : map[k], DOMAIN map)

SumField(list, field) == SumOver(LAMBDA i : list[i][field], 1..Len(list))

\* The window of a date filter, by civil day of the local calendar
DayInWindow(f, ts, range, t) ==
    CASE f = "today" -> LocalDay(ts) = LocalDay(t)
      [] f = "yesterday" -> LocalDay(ts) = LocalDay(t) - 1
      [] f = "days_before" -> LocalDay(ts) < LocalDay(t) - 1
      [] f = "custom" /\ range.from # NoDate ->
            /\ LocalDay(range.from) <= LocalDay(ts)
            /\ LocalDay(ts) <= LocalDay(IF range.to # NoDate THEN range.to
                                        ELSE range.from)
      [] OTHER -> TRUE

\* The positions, in orders, of the live (not cancelled) orders of a window
LiveIn(f) ==
    {i \in 1..Len(orders) :
        /\ orders[i].status # "cancelled"
        /\ DayInWindow(f, OrderTime(orders[i]), dateRange, memoNow)}

ReturnsIn(f) ==
    {j \in 1..Len(returns) :
        DayInWindow(f, returns[j].createdAt, dateRange, memoNow)}

\* Revenue and profit of one order as section 4.1 of the specification has them
SpecRevenue(order) == Max(0, order.orderSummary.totalPrice - 8)

SpecProfitCentimes(order) ==
    LET R == SpecRevenue(order)
        n == order.orderSummary.totalItems
    IN  100 * R - 600 * n - (IF n >= 3 THEN 600 ELSE 0) - 3 * R

\* The orders the date filter selects, as the aggregation selects them
filteredNow == filterOrdersByDate(dateFilter, orders, dateRange, memoNow)

----------------------------------------------------------------------------
(* C1: for every non-cancelled order the profit added for it is            *)
(* R - 6*totalItems - (6 if totalItems >= 3) - 0.03*R with R the clamped   *)
(* revenue max(0, totalPrice - 8), in the scalar total, per status and per *)
(* city, orders with totalPrice < 8 included.                              *)
C1_ProfitOnClampedRevenue ==
    Derived =>
        LET a == adjustedStats
            spec(S) == Centimes(SumOver(LAMBDA i : SpecProfitCentimes(orders[i]), S))
        IN  /\ a.totalProfit + TND(3 * a.returnsCount) = spec(LiveIn(dateFilter))
            /\ \A st \in DOMAIN a.profitByStatus :
                   a.profitByStatus[st] =
                       spec({i \in LiveIn(dateFilter) : orders[i].status = st})
            /\ \A k \in 1..Len(a.ordersByCity) :
                   a.ordersByCity[k].profit =
                       spec({i \in LiveIn(dateFilter) :
                                orders[i].customer.city = a.ordersByCity[k]._id})

----------------------------------------------------------------------------
(* C2: every revenue figure of the result is >= 0.                         *)
C2_RevenueNonNegative ==
    Derived =>
        LET a == adjustedStats
        IN  /\ a.totalRevenue >= 0
            /\ a.todayRevenue >= 0
            /\ a.yesterdayRevenue >= 0
            /\ a.daysBeforeRevenue >= 0
            /\ \A st \in DOMAIN a.revenueByStatus : a.revenueByStatus[st] >= 0
            /\ \A k \in 1..Len(a.ordersByCity) : a.ordersByCity[k].revenue >= 0
            /\ \A k \in 1..Len(a.topProducts) : a.topProducts[k].totalRevenue >= 0
            /\ \A k \in 1..Len(a.ordersOverTime) : a.ordersOverTime[k].revenue >= 0
            /\ \A k \in 1..Len(a.ordersByDayOfWeek) :
                   a.ordersByDayOfWeek[k].revenue >= 0
            /\ a.avgDailyRevenue.num >= 0 /\ a.avgDailyRevenue.den > 0
            /\ a.avgWeeklyRevenue.num >= 0 /\ a.avgWeeklyRevenue.den > 0
            /\ a.avgMonthlyRevenue.num >= 0 /\ a.avgMonthlyRevenue.den > 0

\* A live order priced below the delivery fee is in the window
C2_Witness ==
    /\ Derived
    /\ \E i \in LiveIn(dateFilter) :
           orders[i].orderSummary.totalPrice < DELIVERY_FEE

----------------------------------------------------------------------------
----------------------------------------------------------------------------
(* C4: calculateFreeProducts of a list is the number of its non-cancelled  *)
(* orders with totalItems >= 3, one per order whatever the quantity.       *)
C4_FreeProductsCount ==
    LET promoted(list) ==
            Cardinality({k \in 1..Len(list) :
                            /\ list[k].status # "cancelled"
                            /\ list[k].orderSummary.totalItems >= 3})
    IN  /\ calculateFreeProducts(orders) = promoted(orders)
        /\ calculateFreeProducts(filteredNow) = promoted(filteredNow)
        /\ Derived => adjustedStats.totalFreeProducts = promoted(orders)

\* A live order of more than 3 items beside a cancelled order of 3
C4_Witness ==
    /\ Derived
    /\ adjustedStats.totalFreeProducts = 1
    /\ \E i, k \in 1..Len(orders) :
           /\ orders[i].status # "cancelled"
           /\ orders[i].orderSummary.totalItems > 3
           /\ orders[k].status = "cancelled"
           /\ orders[k].orderSummary.totalItems >= 3

----------------------------------------------------------------------------
(* C5: the per-product revenue sums to the filtered totalRevenue and the   *)
(* per-product profit sums to the filtered totalProfit, for every order    *)
(* list, return list and date filter.                                      *)
C5_AttributionPartition ==
    Derived =>
        /\ SumField(adjustedStats.topProducts, "totalRevenue")
             = adjustedStats.totalRevenue
        /\ SumField(adjustedStats.topProducts, "totalProfit")
             = adjustedStats.totalProfit

(* C5 (amended): when every live order of the window has a positive        *)
(* line-item total, the per-product revenue sums to the filtered           *)
(* totalRevenue and the per-product profit sums to the filtered            *)
(* totalProfit plus 3 per return of the window.                            *)
C5_AttributionOfPricedOrders ==
    (/\ Derived
     /\ \A k \in 1..Len(filteredNow) :
            filteredNow[k].status # "cancelled"
                => LineTotal(filteredNow[k].products) > 0)
    =>
        /\ SumField(adjustedStats.topProducts, "totalRevenue")
             = adjustedStats.totalRevenue
        /\ SumField(adjustedStats.topProducts, "totalProfit")
             = adjustedStats.totalProfit + TND(3 * adjustedStats.returnsCount)

\* Two live orders of several lines in the window, all priced, and a return
C5_Witness ==
    /\ Derived
    /\ adjustedStats.returnsCount > 0
    /\ \A k \in 1..Len(filteredNow) :
           filteredNow[k].status # "cancelled"
               => LineTotal(filteredNow[k].products) > 0
    /\ \E j, k \in 1..Len(filteredNow) :
           /\ j # k
           /\ filteredNow[j].status # "cancelled"
           /\ filteredNow[k].status # "cancelled"
           /\ Len(filteredNow[j].products) > 1
           /\ Len(filteredNow[k].products) > 1
           /\ filteredNow[j].products # filteredNow[k].products

----------------------------------------------------------------------------
(* C6: revenueByStatus sums to the filtered totalRevenue, and neither      *)
(* revenueByStatus nor profitByStatus has the key 'cancelled'.             *)
C6_StatusPartition ==
    Derived =>
        /\ SumMap(adjustedStats.revenueByStatus) = adjustedStats.totalRevenue
        /\ "cancelled" \notin DOMAIN adjustedStats.revenueByStatus
        /\ "cancelled" \notin DOMAIN adjustedStats.profitByStatus

\* The window holds live orders of two statuses, each with revenue
C6_Witness ==
    /\ Derived
    /\ Cardinality(DOMAIN adjustedStats.revenueByStatus) > 1
    /\ \A st \in DOMAIN adjustedStats.revenueByStatus :
           adjustedStats.revenueByStatus[st] > 0

----------------------------------------------------------------------------
(* C7: for each of the windows filtered, today, yesterday and days before, *)
(* the profit is the sum of the per-order profit of the window's live      *)
(* orders minus 3 per return of the window; apart from these profits and   *)
(* the average profit per order derived from them, the result is what it   *)
(* would be without any return; returnsCount is the number of returns of   *)
(* the filtered window; every stored return carries cost 3, so 3 per       *)
(* return is the sum of the stored costs.                                  *)
C7_ReturnsOnlyCutWindowProfit ==
    /\ \A r \in Range(returnsDb) \cup Range(returns) : r.cost = 3
    /\ Derived =>
           LET a == adjustedStats
               without == derivedStats(orders, <<>>, dateFilter, dateRange,
                                       cansStatusFilter, plantTypeFilter,
                                       averagesStatusFilter, memoNow)
               profitOf(f) ==
                   SumOver(LAMBDA i : orderProfit(orders[i]), LiveIn(f))
                     - TND(3 * Cardinality(ReturnsIn(f)))
               storedCosts(f) ==
                   SumOver(LAMBDA j : returns[j].cost, ReturnsIn(f))
           IN  /\ a.totalProfit = profitOf(dateFilter)
               /\ a.todayProfit = profitOf("today")
               /\ a.yesterdayProfit = profitOf("yesterday")
               /\ a.daysBeforeProfit = profitOf("days_before")
               /\ a.returnsCount = Cardinality(ReturnsIn(dateFilter))
               /\ \A f \in DateFilters :
                      3 * Cardinality(ReturnsIn(f)) = storedCosts(f)
               /\ \A k \in DOMAIN without \ {"totalProfit", "todayProfit",
                                             "yesterdayProfit",
                                             "daysBeforeProfit", "returnsCount",
                                             "avgProfitPerOrder"} :
                      a[k] = without[k]

\* A return added through the endpoint is loaded and lies in the filtered
\* window with live orders, another return lies outside it, and the profit of
\* the window is lower than the profit of its orders
C7_Witness ==
    /\ Derived
    /\ dateFilter # "all"
    /\ LiveIn(dateFilter) # {}
    /\ \E j \in ReturnsIn(dateFilter) : returns[j].createdAt >= Now0
    /\ \E j \in 1..Len(returns) : j \notin ReturnsIn(dateFilter)
    /\ adjustedStats.returnsCount > 0
    /\ adjustedStats.totalProfit <
           SumOver(LAMBDA i : orderProfit(orders[i]), LiveIn(dateFilter))

----------------------------------------------------------------------------
(* C8: the partitions compare civil days: a record is in 'today' iff its   *)
(* local day is the day of now, in 'yesterday' iff its day is the day      *)
(* before, in 'days_before' iff its day is earlier than yesterday, however *)
(* few hours lie between the record and now.                               *)
C8_PartitionsByCalendarDay ==
    /\ \A f \in {"today", "yesterday", "days_before"} :
           filterOrdersByDate(f, orders, dateRange, memoNow) =
               SelectSeq(orders,
                         LAMBDA o : DayInWindow(f, OrderTime(o), dateRange,
                                                memoNow))
    /\ Derived =>
           LET a == adjustedStats
               revenueOf(f) ==
                   TND(SumOver(LAMBDA i : SpecRevenue(orders[i]), LiveIn(f)))
           IN  /\ a.todayRevenue = revenueOf("today")
               /\ a.yesterdayRevenue = revenueOf("yesterday")
               /\ a.daysBeforeRevenue = revenueOf("days_before")
               /\ dateFilter \in {"today", "yesterday", "days_before"} =>
                      a.filteredOrdersCount =
                          Cardinality({i \in 1..Len(orders) :
                              DayInWindow(dateFilter, OrderTime(orders[i]),
                                          dateRange, memoNow)})

\* The aggregation ran in the first hours of a day and an order placed in the
\* last hour of the day before is in 'yesterday' and not in 'today'
C8_Witness ==
    /\ Derived
    /\ getHours(memoNow) <= 1
    /\ \E i \in 1..Len(orders) :
           /\ getHours(OrderTime(orders[i])) = HoursPerDay - 1
           /\ memoNow - OrderTime(orders[i]) < HoursPerDay
           /\ orders[i] \in Range(filterOrdersByDate("yesterday", orders,
                                                    dateRange, memoNow))
           /\ orders[i] \notin Range(filterOrdersByDate("today", orders,
                                                       dateRange, memoNow))
    /\ adjustedStats.yesterdayRevenue > 0

----------------------------------------------------------------------------
(* C9: under 'custom' with a range that has a first day, the filtered      *)
(* records are exactly those stamped from the first instant of the first   *)
(* day to the last instant of the last day, both included; without a last  *)
(* day they are exactly the records of the first day.                      *)
C9_CustomRangeInclusive ==
    (dateFilter = "custom" /\ dateRange.from # NoDate) =>
        LET first == LocalDay(dateRange.from)
            last == IF dateRange.to # NoDate THEN LocalDay(dateRange.to)
                    ELSE first
            inside(ts) == At(first, 0) <= ts /\ ts <= At(last, HoursPerDay - 1)
        IN  /\ filteredNow = SelectSeq(orders, LAMBDA o : inside(OrderTime(o)))
            /\ dateRange.to = NoDate =>
                   filteredNow =
                       SelectSeq(orders,
                                 LAMBDA o : LocalDay(OrderTime(o)) = first)
            /\ Derived =>
                   /\ adjustedStats.filteredOrdersCount =
                          Cardinality({i \in 1..Len(orders) :
                                          inside(OrderTime(orders[i]))})
                   /\ adjustedStats.returnsCount =
                          Cardinality({j \in 1..Len(returns) :
                                          inside(returns[j].createdAt)})

\* A range of two days: an order at the first instant of the first day and one
\* in the last hour of the last day are both kept, and of the returns, the one
\* just before and the one just after the range are dropped
C9_Witness ==
    /\ Derived
    /\ dateFilter = "custom"
    /\ dateRange.from # NoDate
    /\ dateRange.to # NoDate
    /\ LocalDay(dateRange.from) < LocalDay(dateRange.to)
    /\ \E i, k \in 1..Len(orders) :
           /\ OrderTime(orders[i]) = startOfDay(dateRange.from)
           /\ OrderTime(orders[k]) = endOfDay(dateRange.to)
    /\ adjustedStats.filteredOrdersCount = 2
    /\ \E j, l \in 1..Len(returns) :
           /\ returns[j].createdAt = startOfDay(dateRange.from) - 1
           /\ returns[l].createdAt = endOfDay(dateRange.to) + 1
    /\ adjustedStats.returnsCount = Len(returns) - 2

----------------------------------------------------------------------------
(* C10: returns pass the date filter by the rule orders pass it by: under  *)
(* every filter value, a return and an order of the same timestamp are     *)
(* both inside or both outside the window.                                 *)
C10_ReturnsFilteredAsOrders ==
    /\ \A f \in DateFilters :
           LET keptOrders == Range(filterOrdersByDate(f, orders, dateRange,
                                                      memoNow))
               keptReturns == Range(filterReturnsByDate(f, returns, dateRange,
                                                        memoNow))
           IN  \A i \in 1..Len(orders), j \in 1..Len(returns) :
                   OrderTime(orders[i]) = returns[j].createdAt =>
                       (orders[i] \in keptOrders <=> returns[j] \in keptReturns)
    /\ Derived =>
           adjustedStats.returnsCount =
               Cardinality({j \in 1..Len(returns) :
                               inDateFilter(dateFilter, returns[j].createdAt,
                                            dateRange, memoNow)})

\* Under a filter that is not 'all': an order inside the window and an order
\* outside it, each with a return of its timestamp
C10_Witness ==
    /\ Derived
    /\ dateFilter # "all"
    /\ \E i, k \in 1..Len(orders), j, l \in 1..Len(returns) :
           /\ OrderTime(orders[i]) = returns[j].createdAt
           /\ OrderTime(orders[k]) = returns[l].createdAt
           /\ orders[i] \in Range(filteredNow)
           /\ orders[k] \notin Range(filteredNow)
           /\ adjustedStats.returnsCount > 0
           /\ adjustedStats.returnsCount < Len(returns)

----------------------------------------------------------------------------
(* C11: the result always carries an hour-of-day series of 24 entries,     *)
(* hours 0..23 in order and labelled HH:00, and a day-of-week series of 7  *)
(* entries, dayIndex 0..6 from Sunday, each counting the live orders of    *)
(* the window in its bucket and 0 where there is none, for every input,    *)
(* the empty order list included.                                          *)
HourLabels ==
    <<"00:00", "01:00", "02:00", "03:00", "04:00", "05:00", "06:00", "07:00",
      "08:00", "09:00", "10:00", "11:00", "12:00", "13:00", "14:00", "15:00",
      "16:00", "17:00", "18:00", "19:00", "20:00", "21:00", "22:00", "23:00">>

DenseSeries(a) ==
    /\ {"ordersByHour", "ordersByDayOfWeek"} \subseteq DOMAIN a
    /\ Len(a.ordersByHour) = Len(HourLabels)
    /\ \A i \in 1..Len(HourLabels) :
           /\ a.ordersByHour[i].hour = i - 1
           /\ a.ordersByHour[i].hourLabel = HourLabels[i]
           /\ a.ordersByHour[i].count =
                  Cardinality({k \in LiveIn(dateFilter) :
                      (OrderTime(orders[k]) + TzOffset) % HoursPerDay = i - 1})
    /\ Len(a.ordersByDayOfWeek) = 7
    /\ \A i \in 1..7 :
           /\ a.ordersByDayOfWeek[i].dayIndex = i - 1
           /\ a.ordersByDayOfWeek[i].day = dayNames[i]
           /\ a.ordersByDayOfWeek[i].count =
                  Cardinality({k \in LiveIn(dateFilter) :
                      LocalDay(OrderTime(orders[k])) % 7 = i - 1})

C11_SeriesAlwaysDense ==
    (stats # Null /\ ~loading) => DenseSeries(adjustedStats)

----------------------------------------------------------------------------
(* C12: when the filtered window holds no order and no return, every       *)
(* scalar metric of the result is 0, the free-product count among them,    *)
(* and every breakdown collection is empty, whatever orders lie outside    *)
(* the window.                                                             *)
EmptyWindow ==
    /\ Derived
    /\ Len(filteredNow) = 0
    /\ ReturnsIn(dateFilter) = {}

BreakdownsEmpty(a) ==
    /\ DOMAIN a.revenueByStatus = {}
    /\ DOMAIN a.profitByStatus = {}
    /\ a.ordersByCity = <<>>
    /\ a.topProducts = <<>>
    /\ a.ordersOverTime = <<>>

\* The sums and counts of the window, and its averages and rates
WindowTotals ==
    {"totalRevenue", "totalProfit", "returnsCount", "filteredOrdersCount",
     "uniqueCustomersCount", "repeatCustomersCount"}

WindowRates ==
    {"avgOrderValue", "avgProfitPerOrder", "avgOrdersPerCustomer",
     "conversionRate", "avgItemsPerOrder"}

C12_EmptyWindowAllZero ==
    EmptyWindow =>
        /\ \A k \in WindowTotals \cup {"totalFreeProducts"} :
               adjustedStats[k] = 0
        /\ \A k \in WindowRates : adjustedStats[k] = Zero
        /\ BreakdownsEmpty(adjustedStats)

----------------------------------------------------------------------------
(* C13: in a window that holds an order that is not cancelled,             *)
(* conversionRate is 100 times the number of delivered orders over the     *)
(* number of orders not cancelled, and lies between 0 and 100.             *)
DeliveredIn(f) == {i \in LiveIn(f) : orders[i].status = "delivered"}

C13_ConversionRate ==
    (Derived /\ LiveIn(dateFilter) # {}) =>
        LET rate == adjustedStats.conversionRate
        IN  /\ rate.den > 0
            /\ rate.num * Cardinality(LiveIn(dateFilter)) =
                   100 * Cardinality(DeliveredIn(dateFilter)) * rate.den
            /\ 0 <= rate.num
            /\ rate.num <= 100 * rate.den

\* The window holds a delivered order and a cancelled one: the rate is 100
C13_Witness ==
    /\ Derived
    /\ Cardinality(DeliveredIn(dateFilter)) = 1
    /\ Cardinality(LiveIn(dateFilter)) = 1
    /\ Len(filteredNow) = 2
    /\ adjustedStats.conversionRate = [num |-> 100, den |-> 1]

----------------------------------------------------------------------------
(* C14: conversionRate is 0, a defined value, whenever the window holds no *)
(* order that is not cancelled, a window of cancelled orders only          *)
(* included.                                                               *)
C14_ConversionRateDefined ==
    (Derived /\ LiveIn(dateFilter) = {}) =>
        adjustedStats.conversionRate = Zero

----------------------------------------------------------------------------
(* C19: the customers counted are the non-empty identities, email if       *)
(* present and phone otherwise, of the live orders of the window:          *)
(* uniqueCustomersCount is the number of distinct ones, and                *)
(* repeatCustomersCount the number of those borne by more than one order;  *)
(* an order with neither email nor phone adds to neither.                  *)
Identity(order) ==
    IF order.customer.email # "" THEN order.customer.email
    ELSE order.customer.phone

Identified(f) == {i \in LiveIn(f) : Identity(orders[i]) # ""}

C19_CustomersByIdentity ==
    Derived =>
        /\ adjustedStats.uniqueCustomersCount =
               Cardinality({Identity(orders[i]) : i \in Identified(dateFilter)})
        /\ adjustedStats.repeatCustomersCount =
               Cardinality({Identity(orders[i]) : i \in
                   {j \in Identified(dateFilter) :
                       \E k \in Identified(dateFilter) :
                           k # j /\ Identity(orders[k]) = Identity(orders[j])}})

----------------------------------------------------------------------------
(* C15: the aggregation is a function of its inputs and of now, and the    *)
(* result the dashboard holds at any moment is that function at the        *)
(* current clock value: a change of day alone shows in the today,          *)
(* yesterday and days-before figures.                                      *)
C15_ResultOfCurrentDay ==
    adjustedStats =
        computeStats(stats, orders, returns, dateFilter, dateRange,
                     cansStatusFilter, plantTypeFilter, averagesStatusFilter,
                     now)

----------------------------------------------------------------------------
(* C16: the result does not depend on the order in which the orders or the *)
(* returns are listed: for every permutation of either list every scalar   *)
(* and every breakdown, the sequence of its entries included, is the same. *)
Reordered(list) ==
    {[i \in 1..Len(list) |-> list[p[i]]] : p \in Permutations(1..Len(list))}

C16_OrderIndependent ==
    Derived =>
        \A ords \in Reordered(orders), rets \in Reordered(returns) :
            computeStats(stats, ords, rets, dateFilter, dateRange,
                         cansStatusFilter, plantTypeFilter,
                         averagesStatusFilter, memoNow) = adjustedStats

----------------------------------------------------------------------------
(* C17: each of the six rolling averages is the revenue (the profit) of    *)
(* the qualifying orders, summed over the buckets of its granularity and   *)
(* divided by the number of distinct buckets holding a qualifying order,   *)
(* and 0 when no order qualifies. The qualifying orders are the            *)
(* non-cancelled orders of the whole list that match averagesStatusFilter, *)
(* so the averages are the same under every date filter and date range.    *)
Qualifying ==
    {i \in 1..Len(orders) :
        /\ orders[i].status # "cancelled"
        /\ \/ averagesStatusFilter = "all"
           \/ orders[i].status = averagesStatusFilter}

BucketsOf(granularity) ==
    {bucketKey(granularity, OrderTime(orders[i])) : i \in Qualifying}

InBucket(granularity, key) ==
    {i \in Qualifying : bucketKey(granularity, OrderTime(orders[i])) = key}

BucketRevenue(granularity, key) ==
    SumOver(LAMBDA i : Max(0, orderRevenue(orders[i])), InBucket(granularity, key))

BucketProfit(granularity, key) ==
    SumOver(LAMBDA i : orderProfit(orders[i]), InBucket(granularity, key))

AverageRevenue(granularity) ==
    IF Qualifying = {} THEN Zero
    ELSE Ratio(SumOver(LAMBDA key : BucketRevenue(granularity, key),
                       BucketsOf(granularity)),
               Cardinality(BucketsOf(granularity)))

AverageProfit(granularity) ==
    IF Qualifying = {} THEN Zero
    ELSE Ratio(SumOver(LAMBDA key : BucketProfit(granularity, key),
                       BucketsOf(granularity)),
               Cardinality(BucketsOf(granularity)))

C17_RollingAverages ==
    Derived =>
        LET a == adjustedStats IN
        /\ a.avgDailyRevenue = AverageRevenue("date")
        /\ a.avgDailyProfit = AverageProfit("date")
        /\ a.avgWeeklyRevenue = AverageRevenue("week")
        /\ a.avgWeeklyProfit = AverageProfit("week")
        /\ a.avgMonthlyRevenue = AverageRevenue("month")
        /\ a.avgMonthlyProfit = AverageProfit("month")

\* Two delivered orders of one week and two days are averaged under the
\* status filter 'delivered' while the date filter shows less than the list
C17_Witness ==
    /\ Derived
    /\ averagesStatusFilter = "delivered"
    /\ dateFilter = "yesterday"
    /\ Cardinality(Qualifying) = 2
    /\ Cardinality(BucketsOf("date")) = 2
    /\ Cardinality(BucketsOf("week")) = 1
    /\ adjustedStats.filteredOrdersCount < 2
    /\ adjustedStats.avgWeeklyRevenue # adjustedStats.avgDailyRevenue
    /\ adjustedStats.avgWeeklyRevenue # Zero

----------------------------------------------------------------------------
(* C18: the weekly bucket of an order is the pair of its year and          *)
(* ceil((dayOfYear0 + weekdayOfJan1 + 1) / 7), dayOfYear0 counting from 0  *)
(* and Sunday being weekday 0. The week number lies in 1..54, January 1st  *)
(* is in week 1, and two orders of one year share a bucket exactly when    *)
(* they fall in the same Sunday-to-Saturday week.                          *)
WeekBuckets == bucketsBy("week", validOrders(orders, averagesStatusFilter))

DayOfYear0(t) == Civil(LocalDay(t)).dayOfYear

WeekdayOfJan1(t) == (LocalDay(t) - DayOfYear0(t)) % 7

\* The least n with 7 * n >= x
CeilOver7(x) == CHOOSE n \in 0..(x + 6) : 7 * n >= x /\ 7 * (n - 1) < x

\* Day 0 of the model's calendar, 2023-01-01, is a Sunday
SundayWeek(t) == LocalDay(t) \div 7

----------------------------------------------------------------------------
(* C20: an order without orderDate is bucketed by its createdAt. An order  *)
(* with neither timestamp raises nothing: it is left out of the orders     *)
(* over time, the hours of the day, the days of the week and the rolling   *)
(* averages, and under the filter 'all' it still counts in the totals.     *)
Undated(order) == order.orderDate = NoDate /\ order.createdAt = NoDate

LiveOrders == {i \in 1..Len(orders) : orders[i].status # "cancelled"}

DatedIn(f) == {i \in LiveIn(f) : ~Undated(orders[i])}

C20_UndatedLeftOut ==
    Derived =>
        LET a == adjustedStats IN
        /\ a # RangeError
        /\ dateFilter = "all" =>
               /\ a.filteredOrdersCount = Len(orders)
               /\ a.totalRevenue =
                      SumOver(LAMBDA i : Max(0, orderRevenue(orders[i])), LiveOrders)
        /\ \A i \in DatedIn(dateFilter) :
               \E b \in Range(a.ordersOverTime) :
                   b._id = toISODate(OrderTime(orders[i]))
        /\ SumField(a.ordersOverTime, "count") = Cardinality(DatedIn(dateFilter))
        /\ SumField(a.ordersByHour, "count") = Cardinality(DatedIn(dateFilter))
        /\ SumField(a.ordersByDayOfWeek, "count") = Cardinality(DatedIn(dateFilter))
        /\ a.avgDailyRevenue =
               IF \A i \in Qualifying : Undated(orders[i]) THEN Zero
               ELSE Ratio(SumOver(LAMBDA i : Max(0, orderRevenue(orders[i])),
                                  {i \in Qualifying : ~Undated(orders[i])}),
                          Cardinality({toISODate(OrderTime(orders[i])) :
                                          i \in {j \in Qualifying : ~Undated(orders[j])}}))

----------------------------------------------------------------------------
(* C21: one commission rate is used wherever the profit of an order is     *)
(* computed: the net profit the order details page shows for an order is   *)
(* the profit the dashboard aggregation attributes to that order, so the   *)
(* total profit of a window without returns is the sum of the net profits  *)
(* of its non-cancelled orders.                                            *)
C21_OneCommissionRate ==
    Derived =>
        /\ \A i \in 1..Len(orders) :
               orders[i].status # "cancelled" =>
                   orderDetailProfit(orders[i]) = orderProfit(orders[i])
        /\ ReturnsIn(dateFilter) = {} =>
               adjustedStats.totalProfit =
                   SumOver(LAMBDA i : orderDetailProfit(orders[i]), LiveIn(dateFilter))

----------------------------------------------------------------------------
(* C22: a non-cancelled order of the window whose line items total 0 is    *)
(* distributed into no product bucket: it creates no topProducts entry and *)
(* changes none, neither in revenue and profit nor in quantity and order   *)
(* count, so topProducts is what it is without such orders.                *)
Priced(orderList) == filter(orderList, LAMBDA o : LineTotal(o.products) > 0)

C22_ZeroTotalInNoBucket ==
    Derived => adjustedStats.topProducts = topProducts(Priced(filteredNow))

----------------------------------------------------------------------------
(* C23: for a non-cancelled order of the window with a positive line-item  *)
(* total T, each line adds (price * quantity / T) of the order's revenue   *)
(* to its product's totalRevenue and the same share of the order's profit  *)
(* to its totalProfit; each line adds its quantity to totalQuantity and 1  *)
(* to orderCount. Lines of one product name, in one order or in several,   *)
(* add up in one entry: lines worth 30 and 10 of an order with revenue 36  *)
(* receive 27 and 9.                                                       *)
\* The lines of the live orders of the window, as <<order, line>>
WindowLines ==
    UNION {{<<i, k>> : k \in 1..Len(orders[i].products)} : i \in LiveIn(dateFilter)}

LinesOf(name) ==
    {ik \in WindowLines : orders[ik[1]].products[ik[2]].name = name}

PricedLinesOf(name) ==
    {ik \in LinesOf(name) : LineTotal(orders[ik[1]].products) > 0}

LineWorth(ik) ==
    orders[ik[1]].products[ik[2]].price * orders[ik[1]].products[ik[2]].quantity

LineRevenue(ik) ==
    (Max(0, orderRevenue(orders[ik[1]])) * LineWorth(ik))
        \div LineTotal(orders[ik[1]].products)

LineProfit(ik) ==
    (orderProfit(orders[ik[1]]) * LineWorth(ik))
        \div LineTotal(orders[ik[1]].products)

ProductNames == Range(PlantNames)

C23_ProportionalAttribution ==
    Derived =>
        LET top == adjustedStats.topProducts IN
        /\ {top[k]._id : k \in 1..Len(top)}
             = {n \in ProductNames : LinesOf(n) # {}}
        /\ \A k, l \in 1..Len(top) : top[k]._id = top[l]._id => k = l
        /\ \A k \in 1..Len(top) :
             LET n == top[k]._id IN
             /\ top[k].totalRevenue = SumOver(LineRevenue, PricedLinesOf(n))
             /\ top[k].totalProfit = SumOver(LineProfit, PricedLinesOf(n))
             /\ top[k].totalQuantity =
                    SumOver(LAMBDA ik : orders[ik[1]].products[ik[2]].quantity,
                            LinesOf(n))
             /\ top[k].orderCount = Cardinality(LinesOf(n))

\* The order with lines worth 30 and 10 and revenue 36 is attributed next to
\* the order with two lines of one product and revenue 42
C23_Witness ==
    /\ Derived
    /\ Cardinality(LiveIn(dateFilter)) = 2
    /\ \E e \in Range(adjustedStats.topProducts) :
           /\ e._id = "Mint"
           /\ e.totalRevenue = TND(9)
           /\ e.orderCount = 1
    /\ \E e \in Range(adjustedStats.topProducts) :
           /\ e._id = "Basil"
           /\ e.totalRevenue = TND(27) + TND(42)
           /\ e.totalQuantity = 4
           /\ e.orderCount = 3

----------------------------------------------------------------------------
(* C24: cansByPlantType lists, for each product name, the line quantities  *)
(* summed over all non-cancelled orders that match cansStatusFilter,       *)
(* whatever the date filter, the larger count first. allPlantTypes is the  *)
(* set of product names over all orders, cancelled or outside the window   *)
(* included, so it holds every name of cansByPlantType. For a selected     *)
(* plant type soldCansForSelectedPlantType is that type's count in         *)
(* cansByPlantType, 0 when it has none, and for 'all' the sum of the       *)
(* counts.                                                                 *)
CansOrdersOf ==
    {i \in 1..Len(orders) :
        /\ orders[i].status # "cancelled"
        /\ \/ cansStatusFilter = "all"
           \/ orders[i].status = cansStatusFilter}

LinesOfOrders(S) ==
    UNION {{<<i, k>> : k \in 1..Len(orders[i].products)} : i \in S}

NamesOf(S) == {orders[ik[1]].products[ik[2]].name : ik \in LinesOfOrders(S)}

CansOf(name) ==
    SumOver(LAMBDA ik : orders[ik[1]].products[ik[2]].quantity,
            {ik \in LinesOfOrders(CansOrdersOf) :
                orders[ik[1]].products[ik[2]].name = name})

----------------------------------------------------------------------------
(* C25: the daily buckets use the civil day of the date filter: two orders *)
(* that the filter 'today', or 'yesterday', selects together have one      *)
(* daily bucket key, in ordersOverTime as in the daily average, so under   *)
(* these filters ordersOverTime has at most one entry.                     *)
C25_DailyBucketOfFilterDay ==
    (Derived /\ dateFilter \in {"today", "yesterday"}) =>
        /\ \A i, j \in LiveIn(dateFilter) :
               bucketKey("date", OrderTime(orders[i]))
                   = bucketKey("date", OrderTime(orders[j]))
        /\ Len(adjustedStats.ordersOverTime) <= 1

----------------------------------------------------------------------------
(* C26: counts are conserved across the groupings: the counts of the 24    *)
(* hours, of the 7 days of the week, of ordersByCity and of ordersOverTime *)
(* each sum to the number of non-cancelled orders of the window, and the   *)
(* revenues of ordersByCity, ordersOverTime and ordersByDayOfWeek each sum *)
(* to totalRevenue.                                                        *)
C26_CountConservation ==
    Derived =>
        LET a == adjustedStats
            live == Cardinality(LiveIn(dateFilter))
        IN  /\ SumField(a.ordersByHour, "count") = live
            /\ SumField(a.ordersByDayOfWeek, "count") = live
            /\ SumField(a.ordersByCity, "count") = live
            /\ SumField(a.ordersOverTime, "count") = live
            /\ SumField(a.ordersByCity, "revenue") = a.totalRevenue
            /\ SumField(a.ordersOverTime, "revenue") = a.totalRevenue
            /\ SumField(a.ordersByDayOfWeek, "revenue") = a.totalRevenue

\* The window of today holds a live order with revenue and a cancelled one
C26_Witness ==
    /\ Derived
    /\ dateFilter = "today"
    /\ Cardinality(LiveIn(dateFilter)) = 1
    /\ adjustedStats.filteredOrdersCount = 2
    /\ adjustedStats.totalRevenue > 0
    /\ SumField(adjustedStats.ordersByCity, "count") = 1

----------------------------------------------------------------------------
(* C27: at any instant the windows 'today', 'yesterday' and 'days_before'  *)
(* are pairwise disjoint, an order dated today or earlier is in exactly    *)
(* one of them and an order dated after today in none; so todayRevenue +   *)
(* yesterdayRevenue + daysBeforeRevenue is the revenue of the window 'all' *)
(* exactly when no order is dated in the future.                           *)
DayWindows == {"today", "yesterday", "days_before"}

WindowsOf(i) ==
    {f \in DayWindows : inDateFilter(f, OrderTime(orders[i]), dateRange, memoNow)}

FutureOrders ==
    {i \in 1..Len(orders) : LocalDay(OrderTime(orders[i])) > LocalDay(memoNow)}

DayPartition ==
    \A i \in 1..Len(orders) :
        /\ Cardinality(WindowsOf(i)) <= 1
        /\ i \notin FutureOrders => Cardinality(WindowsOf(i)) = 1
        /\ i \in FutureOrders => WindowsOf(i) = {}

SumOfDayRevenues ==
    adjustedStats.todayRevenue + adjustedStats.yesterdayRevenue
        + adjustedStats.daysBeforeRevenue

C27_PartitionExactlyWhenNoFuture ==
    (Derived /\ dateFilter = "all") =>
        /\ DayPartition
        /\ (SumOfDayRevenues = adjustedStats.totalRevenue) <=> (FutureOrders = {})

(* C27 (amended): the three windows partition the orders dated today or    *)
(* earlier, and the three revenues sum to the revenue of the window 'all'  *)
(* less the revenue of the non-cancelled orders dated in the future: they  *)
(* sum to it when no order is dated in the future.                         *)
C27_PartitionLessFutureRevenue ==
    (Derived /\ dateFilter = "all") =>
        /\ DayPartition
        /\ SumOfDayRevenues =
               adjustedStats.totalRevenue
                 - SumOver(LAMBDA i : IF orders[i].status = "cancelled" THEN 0
                                      ELSE Max(0, orderRevenue(orders[i])),
                           FutureOrders)
        /\ FutureOrders = {} => SumOfDayRevenues = adjustedStats.totalRevenue

\* After midnight an order of the day before yesterday and one of today are
\* held, both with revenue, and none of tomorrow
C27_Witness ==
    /\ Derived
    /\ dateFilter = "all"
    /\ memoNow > Now0
    /\ FutureOrders = {}
    /\ adjustedStats.todayRevenue > 0
    /\ adjustedStats.daysBeforeRevenue > 0
    /\ adjustedStats.yesterdayRevenue = 0

----------------------------------------------------------------------------
(* C28: the date filter controls. Choosing 'today' or 'yesterday' in the   *)
(* selector sets dateRange to that single day, choosing 'all' clears it,   *)
(* choosing 'days_before' or 'custom' leaves it as it is, and picking a    *)
(* calendar range with a start sets dateFilter to 'custom'. Whatever the   *)
(* sequence of these actions, when dateFilter is 'custom' and dateRange    *)
(* has no start the window is the whole order list and the whole return    *)
(* list, as under 'all'.                                                   *)
SingleDay(range, day) ==
    /\ range.from # NoDate /\ LocalDay(range.from) = day
    /\ range.to # NoDate /\ LocalDay(range.to) = day

SelectorEffect(value) ==
    /\ dateFilter' = value
    /\ value = "today" => SingleDay(dateRange', LocalDay(now))
    /\ value = "yesterday" => SingleDay(dateRange', LocalDay(now) - 1)
    /\ value = "all" => dateRange' = NoRange
    /\ value \in {"days_before", "custom"} => dateRange' = dateRange

CustomWithoutStart == dateFilter = "custom" /\ dateRange.from = NoDate

WindowAsUnderAll ==
    adjustedStats =
        computeStats(stats, orders, returns, "all", NoRange, cansStatusFilter,
                     plantTypeFilter, averagesStatusFilter, memoNow)

C28_DateFilterControl ==
    /\ [][/\ \A value \in DateFilters :
                SelectDateFilter(value) => SelectorEffect(value)
          /\ \A range \in CalendarRanges :
                (CalendarSelect(range) /\ range.from # NoDate) =>
                    (dateFilter' = "custom" /\ dateRange' = range)]_vars
    /\ []((Derived /\ CustomWithoutStart) =>
             /\ WindowAsUnderAll
             /\ adjustedStats.filteredOrdersCount = Len(orders)
             /\ adjustedStats.returnsCount = Len(returns))

\* The filter is 'custom' with no start while orders of several days and
\* returns are held, after the clock has moved
C28_Witness ==
    /\ Derived
    /\ CustomWithoutStart
    /\ Len(orders) = 2
    /\ Len(returns) > 0
    /\ adjustedStats.todayRevenue < adjustedStats.totalRevenue
    /\ memoNow > Now0

----------------------------------------------------------------------------
(* C29: loading ends. When fetchOrders settles, by a list of orders, by a  *)
(* response without 'orders' or by a thrown error, loading is false, and   *)
(* it is never true again; a thrown error leaves the order list as it is   *)
(* and a response without 'orders' empties it. While stats is null or the  *)
(* order list is empty, adjustedStats is the backend stats value itself,   *)
(* with no derived field.                                                  *)
FetchOrdersSettles ==
    \/ \E list \in ReturnOrderLists : FetchOrdersOk(list)
    \/ \E list \in ReturnOrderLists : RefetchOrdersOk(list)
    \/ FetchOrdersNoField
    \/ FetchOrdersFail

C29_LoadingEnds ==
    /\ [][/\ FetchOrdersSettles => ~loading'
          /\ ~loading => ~loading'
          /\ FetchOrdersFail => orders' = orders
          /\ FetchOrdersNoField => orders' = <<>>]_vars
    /\ []((stats = Null \/ orders = <<>>) => adjustedStats = stats)

\* The load has ended with stats and without orders: the result is the
\* backend's stats
C29_Witness ==
    /\ ~loading
    /\ orders = <<>>
    /\ stats = BackendStats
    /\ adjustedStats = BackendStats
    /\ Len(returns) > 0

----------------------------------------------------------------------------
(* C30: the addReturn protocol. A declined confirmation sends nothing and *)
(* leaves addingReturn false; addingReturn is true exactly while the POST *)
(* is awaited, and false after each of its outcomes; fetchReturns is      *)
(* called only after an OK POST; the returns list is replaced only by a   *)
(* GET response with success = true, and then by that response's data, so *)
(* the list held at the end is the one of the response that came back     *)
(* last; a failed POST and a failed GET leave the returns list and the    *)
(* whole result, its profit figures included, as they were.               *)
FailedGetResumes ==
    \E i \in 1..Len(getResponses) :
        ~getResponses[i].success /\ fetchReturnsResumes(i)

C30_AddReturnProtocol ==
    /\ [][/\ AddReturnDecline =>
               /\ ~addingReturn'
               /\ UNCHANGED <<postInFlight, getsInFlight, returnsDb>>
          /\ AddReturnConfirm => addingReturn' /\ postInFlight'
          /\ (PostOk \/ PostFail) => ~addingReturn' /\ ~postInFlight'
          /\ getsInFlight' > getsInFlight =>
               PostOk /\ getsInFlight' = getsInFlight + 1
          /\ returnsDb' # returnsDb => PostOk
          /\ returns' # returns =>
               \E i \in 1..Len(getResponses) :
                   getResponses[i].success /\ fetchReturnsResumes(i)
          /\ \A i \in 1..Len(getResponses) :
               (getResponses[i].success /\ fetchReturnsResumes(i)) =>
                   returns' = getResponses[i].data
          /\ (PostFail \/ FailedGetResumes) =>
               /\ returns' = returns
               /\ computeStats(stats', orders', returns', dateFilter',
                               dateRange', cansStatusFilter', plantTypeFilter',
                               averagesStatusFilter', memoNow') = adjustedStats]_vars
    /\ [](addingReturn <=> postInFlight)

\* Nothing is awaited any more and the list held is an older one, a return
\* short of the collection: as when the GET of the initial load came back
\* after the GET that followed the stored return
C30_Witness ==
    /\ ~loading
    /\ stats # Null
    /\ ~addingReturn
    /\ getsInFlight = 0
    /\ getResponses = <<>>
    /\ Len(returns) > 0
    /\ Len(returns) < Len(returnsDb)
    /\ adjustedStats.returnsCount = Len(returns)

====
